---- MODULE Spec2Model ----
\* Model of the capacitive-touch input subsystem (src/src/touch_input.cpp):
\* start-up (bus bring-up, recovery, scan, controller detection, decoder
\* initialisation, LVGL pointer registration) followed by the UI loop that
\* polls touch_read_cb.  Bus transactions and library calls are recorded in
\* history variables (detLog, pollLog) so that properties about the traffic of
\* one detection pass or one poll can be stated on states.
EXTENDS Integers, Sequences, FiniteSets, TLC

VARIABLES
    TOUCH_SWAP_XY,     \* build flag -D TOUCH_SWAP_XY
    TOUCH_INVERT_X,    \* build flag -D TOUCH_INVERT_X
    TOUCH_INVERT_Y,    \* build flag -D TOUCH_INVERT_Y
    HAVE_GT911_LIB,    \* __has_include(<GT911.h>)
    pc,                \* position inside setup()/touch_init_and_register_lvgl / loop()
    wireClock,         \* Wire clock in Hz, 0 while the controller is released
    s_ic,              \* static TouchIC s_ic
    s_addr,            \* static uint8_t s_addr
    s_gt_using_lib,    \* static bool s_gt_using_lib
    s_indev,           \* static lv_indev_t* s_indev (0 = nullptr, n = n-th created indev)
    lv_indevs,         \* number of pointer devices registered with LVGL carrying touch_read_cb
    scanOut,           \* what the last i2c_full_scan_print printed: the addresses
                       \* and whether " (none)" followed
    scanProbes,        \* zero-length write probes of the scan, in bus order
    detLog,            \* bus transactions of the detect_ic pass of the running
                       \* touch_init_and_register_lvgl call, in order; dropped on return
    detected,          \* identity chosen by the last detect_ic pass ("-" before any)
    pollLog,           \* bus transactions / library calls of the last touch_read_cb call
    data,              \* lv_indev_data_t written by the last touch_read_cb call
    loops,             \* iterations of loop() so far
    polls,             \* calls of touch_read_cb so far
    recCalls,          \* calls of i2c_bus_recover so far
    rec_pc,            \* position inside i2c_bus_recover ("idle" outside a call)
    rec_i,             \* loop counter i of i2c_bus_recover
    recEntry,          \* digitalRead(sdaPin) at line 92 of the last call ("-" = not read)
    recLoopRead,       \* last digitalRead(sdaPin) made by the for-loop condition
    recFinal,          \* digitalRead(sdaPin) at line 114 of the last call
    recPulses,         \* SCL pulses driven by the last call
    recStop,           \* the last call drove the synthetic STOP sequence
    recReleased,       \* the last call has run Wire.end()
    devStatus,         \* status register (0x814E) held by a GT911 whose ready bit
                       \* stays set until the register is written
    recResult,         \* return value of the last call: "true", "false" ("-" while none)
    g_volume,          \* g.volume of the monitor application (uint8_t)
    g_cryThresh,       \* g.cryThresh
    g_playing,         \* g.playing (PlayPreset)
    sliderValue,       \* value held by the volumeSlider widget
    initCalls,         \* calls of touch_init_and_register_lvgl started so far
    millis,            \* value of millis()
    state,             \* SessionState of the binaural application
    sessionMinutes,    \* static uint8_t sessionMinutes
    sessionStartMs,    \* static uint32_t sessionStartMs
    accumulatedMs,     \* static uint32_t accumulatedMs
    lastOp,            \* the handler that ran last ("-" before any)
    opBefore,          \* state and accumulatedMs when that handler started
    opMid,             \* state and accumulatedMs when its session function had
                       \* returned, before its progress update
    shown,             \* what the last ui_update_progress computed and displayed
    doneMinutes,       \* sessionMinutes when the session entered DONE (0: not DONE)
    g_soundLevel,      \* g.soundLevel of the monitor
    g_cryLikely,       \* g.cryLikely
    cry_high_since,    \* static uint32_t cry_high_since
    highRunStart,      \* millis() of the first tick of the present unbroken run of
                       \* ticks with level above the threshold (-1 = no such run)
    lastTickMs         \* millis() of the last tick (-1 before any)

cfgVars  == <<TOUCH_SWAP_XY, TOUCH_INVERT_X, TOUCH_INVERT_Y, HAVE_GT911_LIB>>
detVars  == <<s_ic, s_addr, s_gt_using_lib>>
pollVars == <<pollLog, data, polls>>
recVars  == <<rec_pc, rec_i, recEntry, recLoopRead, recFinal, recPulses, recStop,
             recReleased, recResult>>
vars == <<TOUCH_SWAP_XY, TOUCH_INVERT_X, TOUCH_INVERT_Y, HAVE_GT911_LIB, pc,
          wireClock, s_ic, s_addr, s_gt_using_lib, s_indev, lv_indevs,
          scanOut, scanProbes, detLog, detected, pollLog, data, loops, polls,
          recCalls, rec_pc, rec_i, recEntry, recLoopRead, recFinal, recPulses,
          recStop, recReleased, recResult, devStatus,
          g_volume, g_cryThresh, g_playing, sliderValue, initCalls,
          millis, state, sessionMinutes, sessionStartMs, accumulatedMs,
          lastOp, opBefore, opMid, shown, doneMinutes,
          g_soundLevel, g_cryLikely, cry_high_since, highRunStart, lastTickMs>>

\* The binaural application's session (src/src/main.cpp) and the monitor's
\* simulator (tick_sim_timer), with the clock both read.
sessVars == <<state, sessionMinutes, sessionStartMs, accumulatedMs, lastOp, opBefore,
              opMid, shown, doneMinutes>>
simVars  == <<g_soundLevel, g_cryLikely, cry_high_since, highRunStart,
              lastTickMs>>

\* State of the applications built on the driver.
appVars == <<g_volume, g_cryThresh, g_playing, sliderValue, millis, sessVars, simVars>>

\* The monitor's static initialiser g = {0, false, false, 0, None, 60, 65},
\* the slider widget with LVGL's default value 0, the session's static
\* initialisers (IDLE, 10 minutes, 0, 0) with the progress display build_ui
\* leaves, and the simulator's cry_high_since = 0.
AppInit ==
    /\ g_volume = 60
    /\ g_cryThresh = 65
    /\ g_playing = "None"
    /\ sliderValue = 0
    /\ millis = 0
    /\ state = "IDLE"
    /\ sessionMinutes = 10
    /\ sessionStartMs = 0
    /\ accumulatedMs = 0
    /\ lastOp = "-"
    /\ opBefore = [state |-> "IDLE", acc |-> 0]
    /\ opMid = [state |-> "IDLE", acc |-> 0]
    /\ shown = [sname |-> "IDLE", total |-> 600000, elapsed |-> 0, bar |-> 0, remain |-> 600000]
    /\ doneMinutes = 0
    /\ g_soundLevel = 0
    /\ g_cryLikely = FALSE
    /\ cry_high_since = 0
    /\ highRunStart = -1
    /\ lastTickMs = -1

\* ---------------------------------------------------------------- bounds
MaxLoops == 2          \* loop() iterations explored
MaxRecoverCalls == 2   \* calls of i2c_bus_recover explored step by step
MaxDevPolls == 2       \* polls counted against the stateful device (the count saturates)
MaxInitCalls == 2      \* calls of touch_init_and_register_lvgl explored
MaxMinutes == 10       \* session lengths explored (the code allows up to 60)
MaxSessionMs == 150000 \* clock range explored by the session specification
MaxSimMs == 1200       \* clock range explored by the simulator specification

\* ------------------------------------------------------ program constants
TOUCH_SCREEN_W    == 800
TOUCH_SCREEN_H    == 480
GT_REG_PRODUCT_ID == 33088     \* 0x8140
GT_REG_STATUS     == 33102     \* 0x814E
GT_REG_POINTS     == 33104     \* 0x8150
GT_REG_CONFIG     == 32839     \* 0x8047
FT_ADDR           == 56        \* 0x38
GT_ADDR_5D        == 93        \* 0x5D
GT_ADDR_14        == 20        \* 0x14
FT_REG_CHIPID     == 168       \* 0xA8
FT_REG_VENDID     == 163       \* 0xA3
CLOCK_SLOW        == 100000
CLOCK_FAST        == 400000
RECOVER_MAX_CLOCKS == 16        \* for (i = 0; i < 16 && ...)

\* ------------------------------------------------- environment input sets
\* Status bytes the GT911 may return: ready bit clear/set, contact counts 0,1,5.
StatusBytes == {0, 1, 128, 129, 133}
\* Raw 16-bit coordinate pairs a controller may deliver.
RawPoints == { <<10, 20>>, <<0, 0>>, <<799, 479>>, <<800, 480>>, <<479, 799>>,
               <<32767, 32767>>, <<32768, 40000>>, <<65534, 65534>>,
               <<65535, 65535>>, <<65535, 20>>, <<10, 65535>> }
\* Chip-id bytes register 0xA8 may return.
ChipBytes == {6, 54, 0, 17}
\* Addresses that may acknowledge the diagnostic scan.
ScanAckers == {36, 93}

\* ------------------------------------------------------- integer helpers
ToInt16(v) == LET m == v % 65536 IN IF m >= 32768 THEN m - 65536 ELSE m
Bit7(b)    == (b \div 128) % 2 = 1
LowNibble(b) == b % 16
LE16(lo, hi) == lo + 256 * hi
\* 8-byte first-contact record as transmitted (little-endian x, y; size/id zero)
PointBytes(p) == << p[1] % 256, p[1] \div 256, p[2] % 256, p[2] \div 256, 0, 0, 0, 0 >>

\* ------------------------------------------------------ I2C helper calls
\* Each helper yields the record of the one bus transaction it performs.
i2c_probe(addr, ack) ==
    [op |-> "probe", addr |-> addr, reg |-> 0, len |-> 0, ok |-> ack, bytes |-> <<>>]

i2c_write_u8(addr, reg, v, ack) ==
    [op |-> "write", addr |-> addr, reg |-> reg, len |-> 1, ok |-> ack, bytes |-> <<v>>]

i2c_read(addr, reg, len, ok, bytes) ==
    [op |-> "read", addr |-> addr, reg |-> reg, len |-> len, ok |-> ok,
     bytes |-> IF ok THEN bytes ELSE <<>>]

LibCall(name, result, bytes) ==
    [op |-> name, addr |-> 0, reg |-> 0, len |-> 0, ok |-> result, bytes |-> bytes]

\* ------------------------------------------------------- orient_map
\* Variants used to test the properties below: upper clamp written with ">"
\* instead of ">="; inversion applied before the axis swap.
orient_map_clamp_gt(x, y) ==
    LET x1 == IF TOUCH_SWAP_XY THEN y ELSE x
        y1 == IF TOUCH_SWAP_XY THEN x ELSE y
        x2 == IF TOUCH_INVERT_X THEN ToInt16(TOUCH_SCREEN_W - 1 - x1) ELSE x1
        y2 == IF TOUCH_INVERT_Y THEN ToInt16(TOUCH_SCREEN_H - 1 - y1) ELSE y1
        x3 == IF x2 < 0 THEN 0 ELSE x2
        y3 == IF y2 < 0 THEN 0 ELSE y2
        x4 == IF x3 > TOUCH_SCREEN_W THEN TOUCH_SCREEN_W - 1 ELSE x3
        y4 == IF y3 > TOUCH_SCREEN_H THEN TOUCH_SCREEN_H - 1 ELSE y3
    IN  <<x4, y4>>

orient_map_invert_first(x, y) ==
    LET x1 == IF TOUCH_INVERT_X THEN ToInt16(TOUCH_SCREEN_W - 1 - x) ELSE x
        y1 == IF TOUCH_INVERT_Y THEN ToInt16(TOUCH_SCREEN_H - 1 - y) ELSE y
        x2 == IF TOUCH_SWAP_XY THEN y1 ELSE x1
        y2 == IF TOUCH_SWAP_XY THEN x1 ELSE y1
        x3 == IF x2 < 0 THEN 0 ELSE x2
        y3 == IF y2 < 0 THEN 0 ELSE y2
        x4 == IF x3 >= TOUCH_SCREEN_W THEN TOUCH_SCREEN_W - 1 ELSE x3
        y4 == IF y3 >= TOUCH_SCREEN_H THEN TOUCH_SCREEN_H - 1 ELSE y3
    IN  <<x4, y4>>

\* The code.
orient_map(x, y) ==
    LET x1 == IF TOUCH_SWAP_XY THEN y ELSE x
        y1 == IF TOUCH_SWAP_XY THEN x ELSE y
        x2 == IF TOUCH_INVERT_X THEN ToInt16(TOUCH_SCREEN_W - 1 - x1) ELSE x1
        y2 == IF TOUCH_INVERT_Y THEN ToInt16(TOUCH_SCREEN_H - 1 - y1) ELSE y1
        x3 == IF x2 < 0 THEN 0 ELSE x2
        y3 == IF y2 < 0 THEN 0 ELSE y2
        x4 == IF x3 >= TOUCH_SCREEN_W THEN TOUCH_SCREEN_W - 1 ELSE x3
        y4 == IF y3 >= TOUCH_SCREEN_H THEN TOUCH_SCREEN_H - 1 ELSE y3
    IN  <<x4, y4>>


\* ------------------------------------------------------- decoders
\* A decoder result: the traffic it caused, whether a contact was accepted,
\* and the int16 coordinates handed to orient_map.
Decoded(log, pressed, x, y) == [log |-> log, pressed |-> pressed, x |-> x, y |-> y]

\* FamilyA (touch_read_cb, s_ic == FT6X36): s_ft.touched(), then s_ft.getPoint().
ft_read(touched, p) ==
    IF touched
    THEN Decoded(<< LibCall("ft_touched", TRUE, <<>>),
                    LibCall("ft_getPoint", TRUE, <<ToInt16(p[1]), ToInt16(p[2])>>) >>,
                 TRUE, ToInt16(p[1]), ToInt16(p[2]))
    ELSE Decoded(<< LibCall("ft_touched", FALSE, <<>>) >>, FALSE, 0, 0)

\* FamilyB through the optional GT911 library: read(), isTouched(), getPoint(0).
gt_lib_read(touched, p) ==
    IF touched
    THEN Decoded(<< LibCall("gt_read", TRUE, <<>>),
                    LibCall("gt_isTouched", TRUE, <<>>),
                    LibCall("gt_getPoint", TRUE, <<p[1], p[2]>>) >>,
                 TRUE, ToInt16(p[1]), ToInt16(p[2]))
    ELSE Decoded(<< LibCall("gt_read", TRUE, <<>>),
                    LibCall("gt_isTouched", FALSE, <<>>) >>, FALSE, 0, 0)

\* Variants of the raw path used to test the properties below against
\* plausible slips: acknowledge only after a valid point; no ready-bit gate;
\* sentinel test that rejects only when both axes are 0xFFFF.
gt_raw_read_ack_if_valid(addr, stOk, status, ptOk, rec, ackOk) ==
    LET rdS   == i2c_read(addr, GT_REG_STATUS, 1, stOk, <<status>>)
        rdP   == i2c_read(addr, GT_REG_POINTS, 8, ptOk, rec)
        prx   == LE16(rec[1], rec[2])
        pry   == LE16(rec[3], rec[4])
        valid == ptOk /\ LowNibble(status) > 0 /\ prx # 65535 /\ pry # 65535
        ack   == i2c_write_u8(addr, GT_REG_STATUS, 0, ackOk)
    IN  IF ~stOk \/ ~Bit7(status) THEN Decoded(<<rdS>>, FALSE, 0, 0)
        ELSE IF valid THEN Decoded(<<rdS, rdP, ack>>, TRUE, ToInt16(prx), ToInt16(pry))
        ELSE Decoded(<<rdS, rdP>>, FALSE, 0, 0)

gt_raw_read_no_ready_gate(addr, stOk, status, ptOk, rec, ackOk) ==
    LET rdS   == i2c_read(addr, GT_REG_STATUS, 1, stOk, <<status>>)
        rdP   == i2c_read(addr, GT_REG_POINTS, 8, ptOk, rec)
        prx   == LE16(rec[1], rec[2])
        pry   == LE16(rec[3], rec[4])
        valid == ptOk /\ LowNibble(status) > 0 /\ prx # 65535 /\ pry # 65535
        ack   == i2c_write_u8(addr, GT_REG_STATUS, 0, ackOk)
    IN  IF ~stOk THEN Decoded(<<rdS>>, FALSE, 0, 0)
        ELSE IF valid THEN Decoded(<<rdS, rdP, ack>>, TRUE, ToInt16(prx), ToInt16(pry))
        ELSE Decoded(<<rdS, rdP, ack>>, FALSE, 0, 0)

gt_raw_read_sentinel_both(addr, stOk, status, ptOk, rec, ackOk) ==
    LET rdS   == i2c_read(addr, GT_REG_STATUS, 1, stOk, <<status>>)
        rdP   == i2c_read(addr, GT_REG_POINTS, 8, ptOk, rec)
        prx   == LE16(rec[1], rec[2])
        pry   == LE16(rec[3], rec[4])
        valid == ptOk /\ LowNibble(status) > 0 /\ ~(prx = 65535 /\ pry = 65535)
        ack   == i2c_write_u8(addr, GT_REG_STATUS, 0, ackOk)
    IN  IF ~stOk \/ ~Bit7(status) THEN Decoded(<<rdS>>, FALSE, 0, 0)
        ELSE IF valid THEN Decoded(<<rdS, rdP, ack>>, TRUE, ToInt16(prx), ToInt16(pry))
        ELSE Decoded(<<rdS, rdP, ack>>, FALSE, 0, 0)

\* Variant used to test the properties below: a failed status read is
\* attempted a second time before the poll gives up.
gt_raw_read_retry_status(addr, stOk, status, ptOk, rec, ackOk) ==
    LET rdS   == i2c_read(addr, GT_REG_STATUS, 1, stOk, <<status>>)
        n     == LowNibble(status)
        ready == Bit7(status)
        rdP   == i2c_read(addr, GT_REG_POINTS, 8, ptOk, rec)
        prx   == LE16(rec[1], rec[2])
        pry   == LE16(rec[3], rec[4])
        valid == ptOk /\ n > 0 /\ prx # 65535 /\ pry # 65535
        ack   == i2c_write_u8(addr, GT_REG_STATUS, 0, ackOk)
    IN  IF ~stOk THEN Decoded(<<rdS, rdS>>, FALSE, 0, 0)
        ELSE IF ~ready THEN Decoded(<<rdS>>, FALSE, 0, 0)
        ELSE IF valid THEN Decoded(<<rdS, rdP, ack>>, TRUE, ToInt16(prx), ToInt16(pry))
        ELSE Decoded(<<rdS, rdP, ack>>, FALSE, 0, 0)

\* Variant used to test the properties below: the first-contact record is
\* read only when the status byte announces at least one contact.
gt_raw_read_skip_when_zero(addr, stOk, status, ptOk, rec, ackOk) ==
    LET rdS   == i2c_read(addr, GT_REG_STATUS, 1, stOk, <<status>>)
        n     == LowNibble(status)
        ready == Bit7(status)
        rdP   == i2c_read(addr, GT_REG_POINTS, 8, ptOk, rec)
        prx   == LE16(rec[1], rec[2])
        pry   == LE16(rec[3], rec[4])
        valid == ptOk /\ n > 0 /\ prx # 65535 /\ pry # 65535
        ack   == i2c_write_u8(addr, GT_REG_STATUS, 0, ackOk)
    IN  IF ~stOk THEN Decoded(<<rdS>>, FALSE, 0, 0)
        ELSE IF ~ready THEN Decoded(<<rdS>>, FALSE, 0, 0)
        ELSE IF n = 0 THEN Decoded(<<rdS, ack>>, FALSE, 0, 0)
        ELSE IF valid THEN Decoded(<<rdS, rdP, ack>>, TRUE, ToInt16(prx), ToInt16(pry))
        ELSE Decoded(<<rdS, rdP, ack>>, FALSE, 0, 0)

\* FamilyB raw register path: status read; if ready, first-contact record
\* read, validity test, then the unconditional acknowledge write.
gt_raw_read(addr, stOk, status, ptOk, rec, ackOk) ==
    LET rdS   == i2c_read(addr, GT_REG_STATUS, 1, stOk, <<status>>)
        n     == LowNibble(status)
        ready == Bit7(status)
        rdP   == i2c_read(addr, GT_REG_POINTS, 8, ptOk, rec)
        prx   == LE16(rec[1], rec[2])
        pry   == LE16(rec[3], rec[4])
        valid == ptOk /\ n > 0 /\ prx # 65535 /\ pry # 65535
        ack   == i2c_write_u8(addr, GT_REG_STATUS, 0, ackOk)
    IN  IF ~stOk THEN Decoded(<<rdS>>, FALSE, 0, 0)
        ELSE IF ~ready THEN Decoded(<<rdS>>, FALSE, 0, 0)
        ELSE IF valid THEN Decoded(<<rdS, rdP, ack>>, TRUE, ToInt16(prx), ToInt16(pry))
        ELSE Decoded(<<rdS, rdP, ack>>, FALSE, 0, 0)

\* lv_indev_data_t as left by one call of touch_read_cb.
Released == [continue_reading |-> FALSE, x |-> 0, y |-> 0, state |-> "RELEASED"]
Pressed(p) == [continue_reading |-> FALSE, x |-> p[1], y |-> p[2], state |-> "PRESSED"]

\* Variant used to test the properties below: the result is not reset at
\* entry, so a poll without a contact leaves the previous result in place.
read_cb_result_stale(d) == IF d.pressed THEN Pressed(orient_map(d.x, d.y)) ELSE data

\* Dispatch on the active identity and fill in the result.
read_cb_result(d) == IF d.pressed THEN Pressed(orient_map(d.x, d.y)) ELSE Released

\* Variant used to test the properties below: the FT6X36 branch does not
\* return, and the raw register path runs for every active identity.
decode_poll_fall_through ==
    IF s_ic = "FT6X36"
    THEN { Decoded(f.log \o g.log, f.pressed \/ g.pressed,
                   IF g.pressed THEN g.x ELSE f.x, IF g.pressed THEN g.y ELSE f.y) :
             f \in { ft_read(touched, p) : touched \in BOOLEAN, p \in RawPoints },
             g \in { gt_raw_read(s_addr, stOk, 129, ptOk, PointBytes(<<10, 20>>), TRUE) :
                       stOk \in BOOLEAN, ptOk \in BOOLEAN } }
    ELSE IF s_ic = "GT911"
    THEN IF HAVE_GT911_LIB /\ s_gt_using_lib
         THEN { gt_lib_read(touched, p) : touched \in BOOLEAN, p \in RawPoints }
         ELSE { gt_raw_read(s_addr, stOk, status, ptOk, PointBytes(p), ackOk) :
                  stOk \in BOOLEAN, status \in StatusBytes, ptOk \in BOOLEAN,
                  p \in RawPoints, ackOk \in BOOLEAN }
    ELSE { Decoded(<<>>, FALSE, 0, 0) }

\* The decoder runs of one touch_read_cb call: dispatch on the active identity
\* (FT6X36 branch returns; GT911 branch picks library or raw path; NONE decodes
\* nothing), over every response of the device and the bus.
decode_poll ==
    IF s_ic = "FT6X36"
    THEN { ft_read(touched, p) : touched \in BOOLEAN, p \in RawPoints }
    ELSE IF s_ic = "GT911"
    THEN IF HAVE_GT911_LIB /\ s_gt_using_lib
         THEN { gt_lib_read(touched, p) : touched \in BOOLEAN, p \in RawPoints }
         ELSE { gt_raw_read(s_addr, stOk, status, ptOk, PointBytes(p), ackOk) :
                  stOk \in BOOLEAN, status \in StatusBytes, ptOk \in BOOLEAN,
                  p \in RawPoints, ackOk \in BOOLEAN }
    ELSE { Decoded(<<>>, FALSE, 0, 0) }

\* Variant used to test the properties below: a poll whose first transaction
\* fails gives the controller up (identity and address reset).
touch_read_cb_drops_identity ==
    /\ polls' = polls + 1
    /\ \E d \in decode_poll :
          /\ pollLog' = d.log
          /\ data' = read_cb_result(d)
          /\ IF Len(d.log) > 0 /\ ~d.log[1].ok
             THEN s_ic' = "NONE" /\ s_addr' = 0 /\ UNCHANGED s_gt_using_lib
             ELSE UNCHANGED detVars

\* The code. The rate-limited debug print (static last_dump) writes nothing
\* but the serial log and is left out.
touch_read_cb ==
    /\ polls' = polls + 1
    /\ UNCHANGED detVars
    /\ \E d \in decode_poll :
          /\ pollLog' = d.log
          /\ data' = read_cb_result(d)

\* ------------------------------------------------------- detection
Detected(ic, addr, log) == [ic |-> ic, addr |-> addr, log |-> log]

\* Variants used to test the properties below: FamilyA accepted on two
\* successful ID reads without comparing the chip byte; FamilyB selected only
\* when the product-ID read succeeds.
detect_ic_result_any_chip(a38, a5d, a14, chipOk, chip, vendOk, pidOk, cfgOk) ==
    LET probes == << i2c_probe(FT_ADDR, a38), i2c_probe(GT_ADDR_5D, a5d),
                     i2c_probe(GT_ADDR_14, a14) >>
        rdChip == i2c_read(FT_ADDR, FT_REG_CHIPID, 1, chipOk, <<chip>>)
        rdVend == i2c_read(FT_ADDR, FT_REG_VENDID, 1, vendOk, <<0>>)
        ftLog  == IF ~a38 THEN <<>>
                  ELSE IF ~chipOk THEN <<rdChip>>
                  ELSE <<rdChip, rdVend>>
        ftOk   == a38 /\ chipOk /\ vendOk
        gtAddr == IF a5d THEN GT_ADDR_5D ELSE GT_ADDR_14
        gtLog  == << i2c_read(gtAddr, GT_REG_PRODUCT_ID, 4, pidOk, <<0, 0, 0, 0>>),
                     i2c_read(gtAddr, GT_REG_CONFIG, 7, cfgOk, <<0, 0, 0, 0, 0, 0, 0>>) >>
    IN  IF ftOk THEN Detected("FT6X36", FT_ADDR, probes \o ftLog)
        ELSE IF a5d \/ a14 THEN Detected("GT911", gtAddr, probes \o ftLog \o gtLog)
        ELSE Detected("NONE", 0, probes \o ftLog)

detect_ic_result_pid_gate(a38, a5d, a14, chipOk, chip, vendOk, pidOk, cfgOk) ==
    LET probes == << i2c_probe(FT_ADDR, a38), i2c_probe(GT_ADDR_5D, a5d),
                     i2c_probe(GT_ADDR_14, a14) >>
        rdChip == i2c_read(FT_ADDR, FT_REG_CHIPID, 1, chipOk, <<chip>>)
        rdVend == i2c_read(FT_ADDR, FT_REG_VENDID, 1, vendOk, <<0>>)
        ftLog  == IF ~a38 THEN <<>>
                  ELSE IF ~chipOk THEN <<rdChip>>
                  ELSE <<rdChip, rdVend>>
        ftOk   == a38 /\ chipOk /\ vendOk /\ (chip = 6 \/ chip = 54)
        gtAddr == IF a5d THEN GT_ADDR_5D ELSE GT_ADDR_14
        gtLog  == << i2c_read(gtAddr, GT_REG_PRODUCT_ID, 4, pidOk, <<0, 0, 0, 0>>),
                     i2c_read(gtAddr, GT_REG_CONFIG, 7, cfgOk, <<0, 0, 0, 0, 0, 0, 0>>) >>
    IN  IF ftOk THEN Detected("FT6X36", FT_ADDR, probes \o ftLog)
        ELSE IF (a5d \/ a14) /\ pidOk
             THEN Detected("GT911", gtAddr, probes \o ftLog \o gtLog)
        ELSE IF a5d \/ a14 THEN Detected("NONE", 0, probes \o ftLog \o gtLog)
        ELSE Detected("NONE", 0, probes \o ftLog)

\* Variant used to test the properties below: FamilyB is always resolved to
\* 0x5D, whichever of its two addresses acknowledged.
detect_ic_result_gt_5d_always(a38, a5d, a14, chipOk, chip, vendOk, pidOk, cfgOk) ==
    LET probes == << i2c_probe(FT_ADDR, a38), i2c_probe(GT_ADDR_5D, a5d),
                     i2c_probe(GT_ADDR_14, a14) >>
        rdChip == i2c_read(FT_ADDR, FT_REG_CHIPID, 1, chipOk, <<chip>>)
        rdVend == i2c_read(FT_ADDR, FT_REG_VENDID, 1, vendOk, <<0>>)
        ftLog  == IF ~a38 THEN <<>>
                  ELSE IF ~chipOk THEN <<rdChip>>
                  ELSE <<rdChip, rdVend>>
        ftOk   == a38 /\ chipOk /\ vendOk /\ (chip = 6 \/ chip = 54)
        gtAddr == GT_ADDR_5D
        gtLog  == << i2c_read(gtAddr, GT_REG_PRODUCT_ID, 4, pidOk, <<0, 0, 0, 0>>),
                     i2c_read(gtAddr, GT_REG_CONFIG, 7, cfgOk, <<0, 0, 0, 0, 0, 0, 0>>) >>
    IN  IF ftOk THEN Detected("FT6X36", FT_ADDR, probes \o ftLog)
        ELSE IF a5d \/ a14 THEN Detected("GT911", gtAddr, probes \o ftLog \o gtLog)
        ELSE Detected("NONE", 0, probes \o ftLog)

\* Variant used to test the properties below: 0x5D and 0x14 are probed only
\* after the FamilyA check has failed.
detect_ic_result_lazy_probes(a38, a5d, a14, chipOk, chip, vendOk, pidOk, cfgOk) ==
    LET ftProbe  == << i2c_probe(FT_ADDR, a38) >>
        gtProbes == << i2c_probe(GT_ADDR_5D, a5d), i2c_probe(GT_ADDR_14, a14) >>
        rdChip == i2c_read(FT_ADDR, FT_REG_CHIPID, 1, chipOk, <<chip>>)
        rdVend == i2c_read(FT_ADDR, FT_REG_VENDID, 1, vendOk, <<0>>)
        ftLog  == IF ~a38 THEN <<>>
                  ELSE IF ~chipOk THEN <<rdChip>>
                  ELSE <<rdChip, rdVend>>
        ftOk   == a38 /\ chipOk /\ vendOk /\ (chip = 6 \/ chip = 54)
        gtAddr == IF a5d THEN GT_ADDR_5D ELSE GT_ADDR_14
        gtLog  == << i2c_read(gtAddr, GT_REG_PRODUCT_ID, 4, pidOk, <<0, 0, 0, 0>>),
                     i2c_read(gtAddr, GT_REG_CONFIG, 7, cfgOk, <<0, 0, 0, 0, 0, 0, 0>>) >>
    IN  IF ftOk THEN Detected("FT6X36", FT_ADDR, ftProbe \o ftLog)
        ELSE IF a5d \/ a14
             THEN Detected("GT911", gtAddr, ftProbe \o ftLog \o gtProbes \o gtLog)
        ELSE Detected("NONE", 0, ftProbe \o ftLog \o gtProbes)

\* The code: three probes up front, FamilyA ID check, FamilyB by address.
detect_ic_result(a38, a5d, a14, chipOk, chip, vendOk, pidOk, cfgOk) ==
    LET probes == << i2c_probe(FT_ADDR, a38), i2c_probe(GT_ADDR_5D, a5d),
                     i2c_probe(GT_ADDR_14, a14) >>
        rdChip == i2c_read(FT_ADDR, FT_REG_CHIPID, 1, chipOk, <<chip>>)
        rdVend == i2c_read(FT_ADDR, FT_REG_VENDID, 1, vendOk, <<0>>)
        ftLog  == IF ~a38 THEN <<>>
                  ELSE IF ~chipOk THEN <<rdChip>>
                  ELSE <<rdChip, rdVend>>
        ftOk   == a38 /\ chipOk /\ vendOk /\ (chip = 6 \/ chip = 54)
        gtAddr == IF a5d THEN GT_ADDR_5D ELSE GT_ADDR_14
        gtLog  == << i2c_read(gtAddr, GT_REG_PRODUCT_ID, 4, pidOk, <<0, 0, 0, 0>>),
                     i2c_read(gtAddr, GT_REG_CONFIG, 7, cfgOk, <<0, 0, 0, 0, 0, 0, 0>>) >>
    IN  IF ftOk THEN Detected("FT6X36", FT_ADDR, probes \o ftLog)
        ELSE IF a5d \/ a14 THEN Detected("GT911", gtAddr, probes \o ftLog \o gtLog)
        ELSE Detected("NONE", 0, probes \o ftLog)


\* touch_hw_reset_sequence only drives GPIOs (and nothing when TOUCH_RST_PIN /
\* TOUCH_INT_PIN are -1); it touches no state modelled here.
detect_ic ==
    /\ pc = "detect"
    /\ \E a38 \in BOOLEAN, a5d \in BOOLEAN, a14 \in BOOLEAN,
          chipOk \in BOOLEAN, chip \in ChipBytes, vendOk \in BOOLEAN,
          pidOk \in BOOLEAN, cfgOk \in BOOLEAN :
          LET r == detect_ic_result(a38, a5d, a14, chipOk, chip, vendOk, pidOk, cfgOk)
          IN  /\ s_ic' = r.ic
              /\ s_addr' = r.addr
              /\ detLog' = r.log
              /\ detected' = r.ic
    /\ pc' = "decoder"
    /\ UNCHANGED <<cfgVars, appVars, initCalls, recVars, devStatus, recCalls, scanProbes, wireClock, s_gt_using_lib, s_indev, lv_indevs, scanOut,
                   pollVars, loops>>

\* ------------------------------------------------------- start-up steps
\* Variant used to test the properties below: the scan follows Wire.begin
\* directly, without the call of i2c_bus_recover.
wire_begin_skips_recover ==
    /\ pc = "begin"
    /\ wireClock' = CLOCK_SLOW
    /\ pc' = "scan"
    /\ UNCHANGED <<cfgVars, appVars, initCalls, recVars, devStatus, recCalls, scanProbes, detVars, s_indev, lv_indevs, scanOut, detLog, detected,
                   pollVars, loops>>

\* touch_init_and_register_lvgl, first statements: Wire.begin + setClock(100000).
wire_begin ==
    /\ pc = "begin"
    /\ wireClock' = CLOCK_SLOW
    /\ pc' = "recover"
    /\ UNCHANGED <<cfgVars, appVars, initCalls, recVars, devStatus, recCalls, scanProbes, detVars, s_indev, lv_indevs, scanOut, detLog, detected,
                   pollVars, loops>>

\* i2c_bus_recover as one step of start-up: both return paths re-initialise
\* Wire at 100 kHz and the caller discards the return value.  Its statements
\* are modelled one by one further down (rec_release .. rec_final).
i2c_bus_recover ==
    /\ pc = "recover"
    /\ wireClock' = CLOCK_SLOW
    /\ recCalls' = recCalls + 1
    /\ pc' = "scan"
    /\ UNCHANGED <<cfgVars, appVars, initCalls, recVars, devStatus, scanProbes, detVars, s_indev, lv_indevs, scanOut, detLog,
                   detected,
                   pollVars, loops>>

\* i2c_full_scan_print: for (a = 1; a < 127; ++a) one beginTransmission(a) /
\* endTransmission() each, in order; an address is printed when
\* endTransmission() returns 0; " (none)" is printed when none was.
SCAN_FIRST == 1
SCAN_END   == 127
ScanAcked(a, ackers) == a \in ackers
ScanRange == [i \in 1..(SCAN_END - SCAN_FIRST) |-> SCAN_FIRST + i - 1]

ScanProbes_through_end(ackers) ==
    [i \in 1..(SCAN_END - SCAN_FIRST + 1) |->
        [addr |-> SCAN_FIRST + i - 1, ack |-> ScanAcked(SCAN_FIRST + i - 1, ackers)]]

ScanProbes(ackers) ==
    [i \in 1..(SCAN_END - SCAN_FIRST) |->
        [addr |-> ScanRange[i], ack |-> ScanAcked(ScanRange[i], ackers)]]

ScanList(ackers) == SelectSeq(ScanRange, LAMBDA a : ScanAcked(a, ackers))

ScanPrinted(ackers) ==
    [addrs |-> ScanList(ackers), none |-> (ScanList(ackers) = <<>>)]

i2c_full_scan_print ==
    /\ pc = "scan"
    /\ \E ackers \in SUBSET ScanAckers :
          /\ scanProbes' = ScanProbes(ackers)
          /\ scanOut' = ScanPrinted(ackers)
    /\ pc' = "detect"
    /\ UNCHANGED <<cfgVars, appVars, initCalls, recVars, devStatus, recCalls, wireClock, detVars, s_indev, lv_indevs, detLog,
                   detected, pollVars, loops>>

\* Decoder initialisation after detect_ic: s_ft.begin(30) or s_gt.begin(...).
init_decoder ==
    /\ pc = "decoder"
    /\ \E beginOk \in BOOLEAN :
          IF s_ic = "FT6X36"
          THEN /\ s_ic' = IF beginOk THEN s_ic ELSE "NONE"
               /\ UNCHANGED s_gt_using_lib
          ELSE IF s_ic = "GT911"
          THEN /\ s_gt_using_lib' = IF HAVE_GT911_LIB THEN beginOk ELSE FALSE
               /\ UNCHANGED s_ic
          ELSE UNCHANGED <<s_ic, s_gt_using_lib>>
    /\ pc' = "register"
    /\ UNCHANGED <<cfgVars, appVars, initCalls, recVars, devStatus, recCalls, scanProbes, wireClock, s_addr, s_indev, lv_indevs, scanOut, detLog,
                   detected, pollVars, loops>>

\* Variant used to test the properties below: the pointer device is created
\* and registered without looking at the identity.
register_indev_always ==
    /\ pc = "register"
    /\ wireClock' = CLOCK_FAST
    /\ lv_indevs' = lv_indevs + 1
    /\ s_indev' = lv_indevs + 1
    /\ detLog' = <<>>
    /\ scanProbes' = <<>>
    /\ pc' = "loop"
    /\ UNCHANGED <<cfgVars, appVars, initCalls, recVars, devStatus, recCalls, detVars, scanOut, detected, pollVars, loops>>

\* Registration of the pointer device, only when an identity is active.
register_indev ==
    /\ pc = "register"
    /\ IF s_ic # "NONE"
       THEN /\ wireClock' = CLOCK_FAST
            /\ lv_indevs' = lv_indevs + 1
            /\ s_indev' = lv_indevs + 1
       ELSE UNCHANGED <<wireClock, lv_indevs, s_indev>>
    /\ detLog' = <<>>
    /\ scanProbes' = <<>>
    /\ pc' = "loop"
    /\ UNCHANGED <<cfgVars, appVars, initCalls, recVars, devStatus, recCalls, detVars, scanOut, detected, pollVars, loops>>

\* Public accessors.
touch_present     == s_ic # "NONE"
touch_ic_name     == IF s_ic = "FT6X36" THEN "FT6x36" ELSE IF s_ic = "GT911" THEN "GT911" ELSE "NONE"
touch_i2c_address == s_addr

\* ------------------------------------------------------- UI loop
\* lv_timer_handler runs the read timer of every registered pointer device; in
\* one call of loop() the timer is either due (touch_read_cb is called) or not.
lv_timer_handler ==
    \/ lv_indevs > 0 /\ touch_read_cb
    \/ UNCHANGED <<detVars, pollVars>>

loop ==
    /\ pc = "loop"
    /\ loops < MaxLoops
    /\ loops' = loops + 1
    /\ lv_timer_handler
    /\ UNCHANGED <<cfgVars, appVars, initCalls, recVars, devStatus, recCalls, scanProbes, pc, wireClock, s_indev, lv_indevs, scanOut, detLog, detected>>

\* ------------------------------------------------------- specification
Init ==
    /\ TOUCH_SWAP_XY \in BOOLEAN
    /\ TOUCH_INVERT_X \in BOOLEAN
    /\ TOUCH_INVERT_Y \in BOOLEAN
    /\ HAVE_GT911_LIB \in BOOLEAN
    /\ pc = "begin"
    /\ wireClock = 0
    /\ s_ic = "NONE"
    /\ s_addr = 0
    /\ s_gt_using_lib = FALSE
    /\ s_indev = 0
    /\ lv_indevs = 0
    /\ scanOut = [addrs |-> <<>>, none |-> FALSE]
    /\ scanProbes = <<>>
    /\ detLog = <<>>
    /\ detected = "-"
    /\ pollLog = <<>>
    /\ data = Released
    /\ loops = 0
    /\ polls = 0
    /\ recCalls = 0
    /\ rec_pc = "idle"
    /\ rec_i = 0
    /\ recEntry = "-"
    /\ recLoopRead = "-"
    /\ recFinal = "-"
    /\ recPulses = 0
    /\ recStop = FALSE
    /\ recReleased = FALSE
    /\ recResult = "-"
    /\ devStatus = 0
    /\ AppInit
    /\ initCalls = 1

Next ==
    \/ wire_begin
    \/ i2c_bus_recover
    \/ i2c_full_scan_print
    \/ detect_ic
    \/ init_decoder
    \/ register_indev
    \/ loop

Spec == Init /\ [][Next]_vars


\* ======================================================= properties
\* ---- observations on the record of the last poll
\* The last poll ran the raw-register FamilyB decoder.
RawPolled == polls > 0 /\ s_ic = "GT911" /\ ~(HAVE_GT911_LIB /\ s_gt_using_lib)

IsStatusRead(e) == e.op = "read" /\ e.addr = s_addr /\ e.reg = GT_REG_STATUS /\ e.len = 1
IsPointRead(e)  == e.op = "read" /\ e.addr = s_addr /\ e.reg = GT_REG_POINTS /\ e.len = 8
IsAckWrite(e)   == e.op = "write" /\ e.addr = s_addr /\ e.reg = GT_REG_STATUS /\ e.bytes = <<0>>

\* The poll's first transaction was a successful status read with bit 0x80 set.
ReadyObserved ==
    /\ Len(pollLog) >= 1
    /\ IsStatusRead(pollLog[1])
    /\ pollLog[1].ok
    /\ Bit7(pollLog[1].bytes[1])

StatusCount == LowNibble(pollLog[1].bytes[1])
AckWrites   == { i \in DOMAIN pollLog : IsAckWrite(pollLog[i]) }
Writes      == { i \in DOMAIN pollLog : pollLog[i].op = "write" }
PointReads  == { i \in DOMAIN pollLog : IsPointRead(pollLog[i]) }
PointReadOk == \E i \in PointReads : pollLog[i].ok
\* Coordinates of the point record as the device sent them (unsigned 16 bit).
RecX == LET i == CHOOSE j \in PointReads : pollLog[j].ok
        IN  LE16(pollLog[i].bytes[1], pollLog[i].bytes[2])
RecY == LET i == CHOOSE j \in PointReads : pollLog[j].ok
        IN  LE16(pollLog[i].bytes[3], pollLog[i].bytes[4])

\* C1: in the raw FamilyB path every poll whose status read succeeded with the
\* ready bit set issues exactly one acknowledge write of 0x00 to the status
\* register (and no other write), whatever the contact count, the decoded
\* point, or the outcome of the point-record read.
C1_AckExactlyOnce ==
    (RawPolled /\ ReadyObserved) =>
        /\ Cardinality(AckWrites) = 1
        /\ Writes = AckWrites

\* C1 witness: ready observed with contact count 0, the point-record read
\* failed, and the acknowledge was still written.
C1_Witness ==
    /\ RawPolled /\ ReadyObserved
    /\ StatusCount = 0
    /\ PointReads # {} /\ ~PointReadOk
    /\ Cardinality(AckWrites) = 1

\* C2: in the raw FamilyB path a poll whose status read failed, or succeeded
\* with the ready bit clear, performs no further transaction (the status read
\* is the only one) and reports no contact.
C2_NoReadyNoTraffic ==
    (RawPolled /\ ~ReadyObserved) =>
        /\ Len(pollLog) = 1
        /\ IsStatusRead(pollLog[1])
        /\ PointReads = {} /\ Writes = {}
        /\ data.state = "RELEASED"

\* C2 witness: status read succeeded with a nonzero contact count but the ready
\* bit clear, and nothing else was sent.
C2_Witness ==
    /\ RawPolled
    /\ pollLog[1].ok /\ ~Bit7(pollLog[1].bytes[1]) /\ StatusCount > 0
    /\ Len(pollLog) = 1

\* C3: the raw FamilyB decoder reports a contact if and only if the status
\* read succeeded with ready set, the point-record read succeeded, the contact
\* count is nonzero and neither decoded x nor y is 0xFFFF; status 0x81 with
\* x = y = 0xFFFF yields no contact.
C3_ValidContactIff ==
    RawPolled =>
        /\ (data.state = "PRESSED") <=>
              ( /\ ReadyObserved
                /\ PointReadOk
                /\ StatusCount # 0
                /\ RecX # 65535
                /\ RecY # 65535 )
        /\ (ReadyObserved /\ pollLog[1].bytes[1] = 129 /\ PointReadOk
              /\ RecX = 65535 /\ RecY = 65535) => data.state = "RELEASED"

\* C3 witness: status 0x81, point record read with x = 0xFFFF and a sane y,
\* reported as released.
C3_Witness ==
    /\ RawPolled /\ ReadyObserved
    /\ pollLog[1].bytes[1] = 129
    /\ PointReadOk /\ RecX = 65535 /\ RecY = 20
    /\ data.state = "RELEASED"


\* ---- the coordinates a poll handed to the Orientation Mapper
IsPointSource(e) ==
    \/ e.op = "ft_getPoint"
    \/ e.op = "gt_getPoint"
    \/ (e.op = "read" /\ e.reg = GT_REG_POINTS /\ e.ok)
PointSources == { i \in DOMAIN pollLog : IsPointSource(pollLog[i]) }
\* Unsigned/native pair delivered by the device or library in the last poll.
DeliveredPoint ==
    LET e == pollLog[CHOOSE i \in PointSources : TRUE]
    IN  IF e.op = "read"
        THEN << LE16(e.bytes[1], e.bytes[2]), LE16(e.bytes[3], e.bytes[4]) >>
        ELSE << e.bytes[1], e.bytes[2] >>
\* The same pair as the int16_t x, y passed to orient_map.
MapperInput == << ToInt16(DeliveredPoint[1]), ToInt16(DeliveredPoint[2]) >>

InScreen(p) == 0 <= p[1] /\ p[1] < TOUCH_SCREEN_W /\ 0 <= p[2] /\ p[2] < TOUCH_SCREEN_H

\* C4: for every coordinate pair and every setting of the swap / invert-x /
\* invert-y flags the Orientation Mapper's output lies inside the screen, so
\* every result returned by the poll function has 0 <= x < W and 0 <= y < H.
\* Each output axis of the mapper is computed from one input axis alone, so
\* the pairs <<v, v>> over the whole int16 range exercise every input value on
\* both axes; a few mixed pairs are checked on top, under the build flags of
\* the state.
Int16Range == -32768 .. 32767
MixedPairs == { <<-32768, 32767>>, <<32767, -32768>>, <<-1, 800>>, <<800, -1>>,
                <<799, 480>>, <<480, 799>> }
C4_MappedInsideScreen ==
    /\ pc = "begin" => \A v \in Int16Range : InScreen(orient_map(v, v))
    /\ pc = "begin" => \A p \in MixedPairs : InScreen(orient_map(p[1], p[2]))
    /\ InScreen(<<data.x, data.y>>)

\* C4 witness: a pressed result from a raw point that is outside the screen on
\* both axes (negative after the int16 conversion), with every flag set.
C4_Witness ==
    /\ polls > 0 /\ data.state = "PRESSED"
    /\ TOUCH_SWAP_XY /\ TOUCH_INVERT_X /\ TOUCH_INVERT_Y
    /\ DeliveredPoint = <<32768, 40000>>
    /\ InScreen(<<data.x, data.y>>)

\* ---- the Orientation Mapper's contract, step by step
RefSwap(p)    == <<p[2], p[1]>>
RefInvertX(p) == << ToInt16(TOUCH_SCREEN_W - 1 - p[1]), p[2] >>
RefInvertY(p) == << p[1], ToInt16(TOUCH_SCREEN_H - 1 - p[2]) >>
RefClamp1(v, n) == IF v < 0 THEN 0 ELSE IF v > n - 1 THEN n - 1 ELSE v
RefClamp(p)   == << RefClamp1(p[1], TOUCH_SCREEN_W), RefClamp1(p[2], TOUCH_SCREEN_H) >>
RefMapped(p)  ==
    LET a == IF TOUCH_SWAP_XY THEN RefSwap(p) ELSE p
        b == IF TOUCH_INVERT_X THEN RefInvertX(a) ELSE a
        c == IF TOUCH_INVERT_Y THEN RefInvertY(b) ELSE b
    IN  RefClamp(c)

\* C5: the Orientation Mapper applies axis swap, then X invert (x := W-1-x),
\* then Y invert (y := H-1-y), then clamping, in that order; with swap and
\* invert-x set and invert-y clear, raw (10,20) is reported as (779,10).
C5_SwapThenInvert ==
    (polls > 0 /\ data.state = "PRESSED") =>
        /\ <<data.x, data.y>> = RefMapped(MapperInput)
        /\ (TOUCH_SWAP_XY /\ TOUCH_INVERT_X /\ ~TOUCH_INVERT_Y /\ MapperInput = <<10, 20>>)
              => <<data.x, data.y>> = <<779, 10>>

\* C5 witness: swap=1, invert-x=1, invert-y=0, raw (10,20) pressed at (779,10).
C5_Witness ==
    /\ polls > 0 /\ data.state = "PRESSED"
    /\ TOUCH_SWAP_XY /\ TOUCH_INVERT_X /\ ~TOUCH_INVERT_Y
    /\ MapperInput = <<10, 20>>
    /\ data.x = 779 /\ data.y = 10


\* ---- observations on the record of the detection pass
\* detect_ic has just returned and its traffic record is available.
JustDetected == pc = "decoder"

Acked(a)      == \E i \in DOMAIN detLog :
                    detLog[i].op = "probe" /\ detLog[i].addr = a /\ detLog[i].ok
ReadOk(a, r)  == \E i \in DOMAIN detLog :
                    detLog[i].op = "read" /\ detLog[i].addr = a /\ detLog[i].reg = r
                    /\ detLog[i].ok
ReadFailed(a, r) == \E i \in DOMAIN detLog :
                    detLog[i].op = "read" /\ detLog[i].addr = a /\ detLog[i].reg = r
                    /\ ~detLog[i].ok
ChipByteIn(S) == \E i \in DOMAIN detLog :
                    detLog[i].op = "read" /\ detLog[i].addr = 56 /\ detLog[i].reg = 168
                    /\ detLog[i].ok /\ detLog[i].bytes[1] \in S
\* FamilyA's evidence as the specification states it.
FamilyAConfirmed ==
    Acked(56) /\ ReadOk(56, 168) /\ ReadOk(56, 163) /\ ChipByteIn({6, 54})

\* C6: detection selects FamilyA (FT6x36 at 0x38) if and only if 0x38
\* acknowledged, both one-byte ID reads (0xA8, 0xA3) succeeded and the chip
\* byte is 0x06 or 0x36; an acknowledge alone, a failed ID read or another chip
\* byte never yields FamilyA.
C6_FamilyAIffVerified ==
    JustDetected =>
        /\ (s_ic = "FT6X36") <=> FamilyAConfirmed
        /\ (s_ic = "FT6X36") => s_addr = 56
        /\ detected = s_ic

\* C6 witness: 0x38 acknowledged and both ID reads succeeded, but the chip
\* byte was 0x11, and FamilyA was not selected.
C6_Witness ==
    /\ JustDetected
    /\ Acked(56) /\ ReadOk(56, 168) /\ ReadOk(56, 163) /\ ChipByteIn({17})
    /\ s_ic # "FT6X36"

\* C7: whenever FamilyA is not confirmed, detection selects FamilyB if and
\* only if 0x5D or 0x14 acknowledged, with address 0x5D when that one
\* acknowledged and 0x14 otherwise, and selects nothing (NONE, address 0)
\* when neither did; the product-ID and configuration reads do not matter.
C7_FamilyBByAddressOnly ==
    (JustDetected /\ ~FamilyAConfirmed) =>
        /\ (s_ic = "GT911") <=> (Acked(93) \/ Acked(20))
        /\ (s_ic = "GT911") => s_addr = (IF Acked(93) THEN 93 ELSE 20)
        /\ (s_ic # "GT911") => (s_ic = "NONE" /\ s_addr = 0)

\* C7 witness: 0x38 acknowledged with a wrong chip byte, only 0x14
\* acknowledged among FamilyB's addresses, the product-ID and configuration
\* reads both failed, and FamilyB was selected at 0x14.
C7_Witness ==
    /\ JustDetected
    /\ Acked(56) /\ ChipByteIn({0, 17})
    /\ ~Acked(93) /\ Acked(20)
    /\ ReadFailed(20, 33088) /\ ReadFailed(20, 32839)
    /\ s_ic = "GT911" /\ s_addr = 20


\* C8: if detection confirmed neither family, then once
\* touch_init_and_register_lvgl has returned the identity is NONE,
\* touch_present() is false, no pointer device / read callback is registered,
\* and touch_read_cb has been called zero times however many loop()
\* iterations have run.
C8_NoDeviceNoPolling ==
    (pc = "loop" /\ detected = "NONE") =>
        /\ s_ic = "NONE"
        /\ ~touch_present
        /\ touch_ic_name = "NONE"
        /\ lv_indevs = 0
        /\ s_indev = 0
        /\ polls = 0
        /\ pollLog = <<>>

\* C8 witness: nothing detected and every explored loop() iteration has run
\* without a single poll.
C8_Witness ==
    /\ pc = "loop" /\ detected = "NONE"
    /\ loops = MaxLoops
    /\ polls = 0 /\ lv_indevs = 0

\* C9: the active identity is always exactly one of NONE, FT6X36, GT911, and a
\* poll runs the decoder of that identity only: a FamilyA poll makes library
\* calls to the FT6206 driver and no raw status read, point read or
\* acknowledge write; a FamilyB poll makes either GT911-library calls or raw
\* register transactions at the resolved address, and never an FT6206 call.
FtOps    == {"ft_touched", "ft_getPoint"}
GtLibOps == {"gt_read", "gt_isTouched", "gt_getPoint"}
RawOps   == {"read", "write"}
PollOps  == { pollLog[i].op : i \in DOMAIN pollLog }
C9_OneDecoderPerPoll ==
    /\ s_ic \in {"NONE", "FT6X36", "GT911"}
    /\ polls > 0 =>
        /\ s_ic = "FT6X36" => (PollOps # {} /\ PollOps \subseteq FtOps)
        /\ (s_ic = "GT911" /\ HAVE_GT911_LIB /\ s_gt_using_lib) =>
              (PollOps # {} /\ PollOps \subseteq GtLibOps)
        /\ (s_ic = "GT911" /\ ~(HAVE_GT911_LIB /\ s_gt_using_lib)) =>
              /\ PollOps # {} /\ PollOps \subseteq RawOps
              /\ \A i \in DOMAIN pollLog : pollLog[i].addr = s_addr
        /\ s_ic = "NONE" => pollLog = <<>>

\* C9 witness: a FamilyA poll that reported a contact through the library.
C9_Witness ==
    /\ polls > 0 /\ s_ic = "FT6X36"
    /\ data.state = "PRESSED"
    /\ PollOps = FtOps

\* C10: a call of touch_read_cb never changes the detection state: identity,
\* resolved address and the library-vs-raw choice are the same after the poll
\* as before it, and so are touch_present(), touch_ic_name() and
\* touch_i2c_address(), whatever the device answered and whichever
\* transaction failed.
C10_PollKeepsDetection ==
    [][ polls' # polls =>
          /\ s_ic' = s_ic
          /\ s_addr' = s_addr
          /\ s_gt_using_lib' = s_gt_using_lib
          /\ touch_present' = touch_present
          /\ touch_ic_name' = touch_ic_name
          /\ touch_i2c_address' = touch_i2c_address ]_vars

\* C10 witness: after two polls in raw FamilyB mode, the last with a failed
\* status read, the identity is still GT911 at its resolved address.
C10_Witness ==
    /\ polls >= 2
    /\ s_ic = "GT911" /\ s_addr = 20 /\ ~s_gt_using_lib
    /\ Len(pollLog) = 1 /\ ~pollLog[1].ok
    /\ touch_present


\* C11: every call of touch_read_cb leaves continue_reading false and returns
\* either released with (0,0) or pressed with the mapped coordinates of a
\* contact decoded in that same call; a poll that obtained no contact returns
\* released (0,0) whatever earlier polls returned.
C11_FreshResultPerPoll ==
    polls > 0 =>
        /\ data.continue_reading = FALSE
        /\ data.state \in {"PRESSED", "RELEASED"}
        /\ data.state = "RELEASED" => (data.x = 0 /\ data.y = 0)
        /\ PointSources = {} => data = Released
        /\ data.state = "PRESSED" =>
              /\ PointSources # {}
              /\ <<data.x, data.y>> = RefMapped(MapperInput)

\* C11 witness: a second poll, in raw FamilyB mode, that saw no ready bit and
\* returned released (0,0).
C11_Witness ==
    /\ polls >= 2
    /\ RawPolled /\ ~ReadyObserved
    /\ data = Released

\* ---------------------------------------------------------------------------
\* i2c_bus_recover, statement by statement.  Every digitalRead(sdaPin) is an
\* input: the line level is whatever the slave holding it makes it, so each
\* read may return LOW or HIGH (a line that stays low forever is the behaviour
\* in which every read returns LOW).
\* ---------------------------------------------------------------------------
Levels == {"LOW", "HIGH"}

recGhosts == <<recEntry, recLoopRead, recFinal, recPulses, recStop, recResult>>
nonRecVars == <<cfgVars, appVars, initCalls, devStatus, pc, detVars, s_indev, lv_indevs, scanOut, scanProbes, detLog, detected,
                pollVars, loops>>

\* Lines 87-90: Wire.end(), both pins to INPUT_PULLUP, delay(1).
rec_release ==
    /\ rec_pc = "idle"
    /\ recCalls < MaxRecoverCalls
    /\ recCalls' = recCalls + 1
    /\ wireClock' = 0
    /\ recReleased' = TRUE
    /\ rec_i' = 0
    /\ recEntry' = "-" /\ recLoopRead' = "-" /\ recFinal' = "-"
    /\ recPulses' = 0 /\ recStop' = FALSE /\ recResult' = "-"
    /\ rec_pc' = "check"
    /\ UNCHANGED nonRecVars

rec_check_no_reinit ==
    /\ rec_pc = "check"
    /\ \E lvl \in Levels :
          /\ recEntry' = lvl
          /\ IF lvl = "HIGH"
                THEN /\ recResult' = "true"
                     /\ rec_pc' = "idle"
                     /\ UNCHANGED wireClock
                ELSE /\ rec_pc' = "loop"
                     /\ UNCHANGED <<wireClock, recResult>>
    /\ rec_i' = 0
    /\ UNCHANGED <<nonRecVars, recCalls, recLoopRead, recFinal, recPulses, recStop,
                   recReleased>>

\* Lines 92-99: idle bus -> Wire.begin, setClock(100000), return true;
\* otherwise SCL becomes an output and the loop starts with i = 0.
rec_check ==
    /\ rec_pc = "check"
    /\ \E lvl \in Levels :
          /\ recEntry' = lvl
          /\ IF lvl = "HIGH"
                THEN /\ wireClock' = CLOCK_SLOW
                     /\ recResult' = "true"
                     /\ rec_pc' = "idle"
                ELSE /\ rec_pc' = "loop"
                     /\ UNCHANGED <<wireClock, recResult>>
    /\ rec_i' = 0
    /\ UNCHANGED <<nonRecVars, recCalls, recLoopRead, recFinal, recPulses, recStop,
                   recReleased>>

rec_loop_off_by_one ==
    /\ rec_pc = "loop"
    /\ IF rec_i <= RECOVER_MAX_CLOCKS
          THEN \E lvl \in Levels :
                  /\ recLoopRead' = lvl
                  /\ IF lvl = "LOW"
                        THEN /\ recPulses' = recPulses + 1
                             /\ rec_i' = rec_i + 1
                             /\ UNCHANGED rec_pc
                        ELSE /\ rec_pc' = "stop"
                             /\ UNCHANGED <<recPulses, rec_i>>
          ELSE /\ rec_pc' = "stop"
               /\ UNCHANGED <<recLoopRead, recPulses, rec_i>>
    /\ UNCHANGED <<nonRecVars, wireClock, recCalls, recEntry, recFinal, recStop,
                   recReleased, recResult>>

\* Lines 100-103: one evaluation of `i<16 && digitalRead(sdaPin)==LOW` (the data
\* line is read only when i<16) and, when it holds, one SCL pulse and ++i.
rec_loop ==
    /\ rec_pc = "loop"
    /\ IF rec_i < RECOVER_MAX_CLOCKS
          THEN \E lvl \in Levels :
                  /\ recLoopRead' = lvl
                  /\ IF lvl = "LOW"
                        THEN /\ recPulses' = recPulses + 1
                             /\ rec_i' = rec_i + 1
                             /\ UNCHANGED rec_pc
                        ELSE /\ rec_pc' = "stop"
                             /\ UNCHANGED <<recPulses, rec_i>>
          ELSE /\ rec_pc' = "stop"
               /\ UNCHANGED <<recLoopRead, recPulses, rec_i>>
    /\ UNCHANGED <<nonRecVars, wireClock, recCalls, recEntry, recFinal, recStop,
                   recReleased, recResult>>

\* Lines 106-109: the synthetic STOP (SDA low, SCL high, SDA high).
rec_stop ==
    /\ rec_pc = "stop"
    /\ recStop' = TRUE
    /\ rec_pc' = "reinit"
    /\ UNCHANGED <<nonRecVars, wireClock, recCalls, rec_i, recEntry, recLoopRead,
                   recFinal, recPulses, recReleased, recResult>>

\* Lines 111-113: Wire.begin, setClock(100000), delay(3).
rec_reinit ==
    /\ rec_pc = "reinit"
    /\ wireClock' = CLOCK_SLOW
    /\ rec_pc' = "final"
    /\ UNCHANGED <<nonRecVars, recCalls, rec_i, recGhosts, recReleased>>

rec_final_reports_loop_read ==
    /\ rec_pc = "final"
    /\ \E lvl \in Levels :
          /\ recFinal' = lvl
          /\ recResult' = (IF recLoopRead = "HIGH" THEN "true" ELSE "false")
    /\ rec_pc' = "idle"
    /\ UNCHANGED <<nonRecVars, wireClock, recCalls, rec_i, recEntry, recLoopRead,
                   recPulses, recStop, recReleased>>

\* Line 114: return (digitalRead(sdaPin) == HIGH).
rec_final ==
    /\ rec_pc = "final"
    /\ \E lvl \in Levels :
          /\ recFinal' = lvl
          /\ recResult' = (IF lvl = "HIGH" THEN "true" ELSE "false")
    /\ rec_pc' = "idle"
    /\ UNCHANGED <<nonRecVars, wireClock, recCalls, rec_i, recEntry, recLoopRead,
                   recPulses, recStop, recReleased>>

\* The state in which both callers (setup, line 746, and
\* touch_init_and_register_lvgl, line 274) make the call: Wire has just been
\* started at 100 kHz, i.e. the state of Spec after wire_begin.
InitRecover ==
    /\ TOUCH_SWAP_XY \in BOOLEAN /\ TOUCH_INVERT_X \in BOOLEAN
    /\ TOUCH_INVERT_Y \in BOOLEAN /\ HAVE_GT911_LIB \in BOOLEAN
    /\ pc = "recover"
    /\ wireClock = CLOCK_SLOW
    /\ s_ic = "NONE" /\ s_addr = 0 /\ s_gt_using_lib = FALSE
    /\ s_indev = 0 /\ lv_indevs = 0
    /\ scanOut = [addrs |-> <<>>, none |-> FALSE] /\ scanProbes = <<>>
    /\ detLog = <<>> /\ detected = "-"
    /\ pollLog = <<>> /\ data = Released /\ loops = 0 /\ polls = 0
    /\ recCalls = 0 /\ rec_pc = "idle" /\ rec_i = 0
    /\ recEntry = "-" /\ recLoopRead = "-" /\ recFinal = "-"
    /\ recPulses = 0 /\ recStop = FALSE /\ recReleased = FALSE
    /\ recResult = "-"
    /\ devStatus = 0
    /\ AppInit
    /\ initCalls = 1

NextRecover ==
    \/ rec_release
    \/ rec_check
    \/ rec_loop
    \/ rec_stop
    \/ rec_reinit
    \/ rec_final

\* The processor executes the function's statements one after another and the
\* delays are fixed, so a started call always takes its next step.
SpecRecover == InitRecover /\ [][NextRecover]_vars /\ WF_vars(NextRecover)

RecoverReturned == recCalls > 0 /\ rec_pc = "idle"
RecoverLoopLeft == rec_pc \in {"stop", "reinit", "final"} \/ (RecoverReturned /\ recEntry = "LOW")

\* C12: i2c_bus_recover terminates whatever the data line does, a line that
\* stays low forever included: a call drives at most 16 clock pulses, each
\* pulse follows a read of the data line that returned LOW, no pulse follows a
\* read that returned HIGH, the loop is left only after a HIGH read or the
\* 16th pulse, and every started call returns.
C12_RecoverTerminates ==
    /\ [](recPulses <= RECOVER_MAX_CLOCKS)
    /\ [][recPulses' > recPulses =>
             (recPulses' = recPulses + 1 /\ recLoopRead' = "LOW")]_vars
    /\ [][recLoopRead = "HIGH" => recPulses' <= recPulses]_vars
    /\ [](RecoverLoopLeft =>
             (recLoopRead = "HIGH" \/ recPulses = RECOVER_MAX_CLOCKS))
    /\ ((rec_pc # "idle") ~> (rec_pc = "idle"))

\* A call during which every read of the data line returned LOW has returned
\* after exactly 16 pulses.
C12_Witness ==
    /\ RecoverReturned
    /\ recEntry = "LOW" /\ recLoopRead = "LOW" /\ recFinal = "LOW"
    /\ recPulses = RECOVER_MAX_CLOCKS
    /\ recResult = "false"

\* C13: a call that read the data line HIGH at entry returns true and drives
\* neither a clock pulse nor the STOP sequence; any other call drives the STOP,
\* re-initialises the bus, reads the data line once more and returns true
\* exactly when that final read is HIGH, so false is returned only when the
\* line is still LOW at the final read.
C13_RecoverResult ==
    /\ recEntry = "HIGH" => (recPulses = 0 /\ ~recStop /\ recFinal = "-")
    /\ recFinal # "-" => (recEntry = "LOW" /\ recStop)
    /\ rec_pc = "final" => (recStop /\ wireClock = CLOCK_SLOW)
    /\ RecoverReturned =>
          /\ recResult \in {"true", "false"}
          /\ recEntry \in Levels
          /\ recEntry = "HIGH" => recResult = "true"
          /\ recEntry = "LOW" =>
                /\ recStop
                /\ recFinal \in Levels
                /\ recResult = "true" <=> recFinal = "HIGH"
          /\ recResult = "false" => recFinal = "LOW"

\* The line read HIGH inside the loop but LOW again at the final read: the
\* call returned false.
C13_Witness ==
    /\ RecoverReturned
    /\ recEntry = "LOW" /\ recLoopRead = "HIGH" /\ recFinal = "LOW"
    /\ recStop
    /\ recResult = "false"

\* C14: every return of i2c_bus_recover, with true or with false, leaves the
\* bus controller re-initialised at 100 kHz, and that re-initialisation follows
\* the release made at the start of the call: from the release until Wire.begin
\* the controller stays released.
C14_RecoverLeavesBusUsable ==
    /\ rec_pc \in {"check", "loop", "stop", "reinit"} =>
          (recReleased /\ wireClock = 0)
    /\ RecoverReturned =>
          /\ recReleased
          /\ wireClock = CLOCK_SLOW

\* A failed recovery has returned and the bus runs at 100 kHz.
C14_Witness ==
    /\ RecoverReturned
    /\ recResult = "false"
    /\ recReleased
    /\ wireClock = CLOCK_SLOW

\* ---------------------------------------------------------------------------
\* Bus scan
\* ---------------------------------------------------------------------------
ScanDone == pc \in {"detect", "decoder", "register"}
ProbesOf(a) == {i \in DOMAIN scanProbes : scanProbes[i].addr = a}
ScanAckedAddrs == {scanProbes[i].addr : i \in {j \in DOMAIN scanProbes : scanProbes[j].ack}}
ScanPrintedAddrs == {scanOut.addrs[j] : j \in DOMAIN scanOut.addrs}

\* C15: the scan sends exactly one zero-length write probe to each address
\* 1..126 and none to any other address, prints exactly the addresses that
\* acknowledged, each once (and " (none)" exactly when there is none), goes on
\* to detection whatever the answers were, and changes neither the identity
\* nor the resolved address nor anything else of the driver's state.
C15_ScanProbesEachOnce ==
    /\ [](ScanDone =>
            /\ \A a \in 0..127 :
                  Cardinality(ProbesOf(a)) = (IF a \in 1..126 THEN 1 ELSE 0)
            /\ \A i \in DOMAIN scanProbes : scanProbes[i].addr \in 0..127
            /\ ScanPrintedAddrs = ScanAckedAddrs
            /\ Cardinality(ScanPrintedAddrs) = Len(scanOut.addrs)
            /\ scanOut.none <=> (ScanAckedAddrs = {}))
    /\ [][pc = "scan" =>
             /\ pc' = "detect"
             /\ UNCHANGED <<detVars, s_indev, lv_indevs, wireClock, data>>]_vars

\* A scan in which 0x5D acknowledged and 0x24 did not has finished.
C15_Witness ==
    /\ pc = "detect"
    /\ scanOut.addrs = <<GT_ADDR_5D>>
    /\ ~scanOut.none
    /\ \E i \in DOMAIN scanProbes : scanProbes[i].addr = 36 /\ ~scanProbes[i].ack

\* ---------------------------------------------------------------------------
\* Failed transactions during a poll
\* ---------------------------------------------------------------------------
IsBusOp(e) == e.op \in {"read", "write"}
FailedInPoll == \E i \in DOMAIN pollLog : IsBusOp(pollLog[i]) /\ ~pollLog[i].ok
SameTransaction(e, f) == e.op = f.op /\ e.addr = f.addr /\ e.reg = f.reg
ValidPointDecoded ==
    /\ ReadyObserved
    /\ PointReadOk
    /\ StatusCount # 0
    /\ RecX # 65535
    /\ RecY # 65535

\* C16: a bus transaction that fails during a poll is absorbed: the poll still
\* returns a result, which is "released" unless a valid point was decoded in
\* that poll; a failed status read ends the poll's traffic and a failed
\* point-record read is followed only by the acknowledge write; no transaction
\* appears twice in one poll; and a poll neither calls i2c_bus_recover nor
\* touches the bus controller's set-up, recovery being called only from the
\* start-up sequence.
C16_FailureIsNoInput ==
    /\ [](\A i, j \in DOMAIN pollLog :
             (i # j) => ~SameTransaction(pollLog[i], pollLog[j]))
    /\ []((polls > 0 /\ FailedInPoll) =>
             /\ data.state \in {"PRESSED", "RELEASED"}
             /\ ~ValidPointDecoded => data = Released
             /\ ~pollLog[1].ok => Len(pollLog) = 1
             /\ (\E i \in PointReads : ~pollLog[i].ok) =>
                   (data = Released /\ Len(pollLog) = 3 /\ IsAckWrite(pollLog[3])))
    /\ [][polls' # polls =>
             (recCalls' = recCalls /\ rec_pc' = rec_pc /\ wireClock' = wireClock)]_vars
    /\ [][recCalls' # recCalls => (pc = "recover" /\ polls = 0)]_vars

\* A second poll failed at its status read: nothing else was sent, the result
\* is "released" and recovery has still run only once, at start-up.
C16_Witness ==
    /\ polls = 2
    /\ RawPolled
    /\ Len(pollLog) = 1 /\ IsStatusRead(pollLog[1]) /\ ~pollLog[1].ok
    /\ data = Released
    /\ recCalls = 1

\* ---------------------------------------------------------------------------
\* Order of the start-up steps
\* ---------------------------------------------------------------------------
InitOrder == { <<"begin", "recover">>, <<"recover", "scan">>, <<"scan", "detect">>,
               <<"detect", "decoder">>, <<"decoder", "register">>,
               <<"register", "loop">> }
RecoverHasReturned == recCalls >= 1 /\ rec_pc = "idle"
DetectionFinished == detected # "-"

\* C17: touch_init_and_register_lvgl runs bus recovery, bus scan, controller
\* detection, decoder initialisation and poll-handler registration in that
\* order; no scan probe, detection transaction or poll transaction exists
\* before i2c_bus_recover has returned, detection runs after the scan, the
\* pointer device is registered only after detection, and the poll function
\* runs only after detection has finished and registration is done.
C17_InitOrder ==
    /\ [][pc' # pc => <<pc, pc'>> \in InitOrder]_vars
    /\ []((scanProbes # <<>> \/ detLog # <<>> \/ pollLog # <<>>) => RecoverHasReturned)
    /\ [](pc \in {"begin", "recover"} =>
             (recCalls = 0 /\ scanProbes = <<>> /\ detLog = <<>> /\ ~DetectionFinished))
    /\ [](DetectionFinished => (RecoverHasReturned /\ pc \in {"decoder", "register", "loop"}))
    /\ [](pc = "decoder" => (Len(scanProbes) = SCAN_END - SCAN_FIRST /\ detLog # <<>>))
    /\ [](lv_indevs > 0 => (DetectionFinished /\ pc = "loop"))
    /\ [][polls' # polls => (pc = "loop" /\ DetectionFinished /\ lv_indevs > 0)]_vars
    /\ [](polls > 0 => (pc = "loop" /\ DetectionFinished /\ RecoverHasReturned))

\* The poll function has run after a start-up that went through recovery,
\* scan and a successful detection.
C17_Witness ==
    /\ pc = "loop"
    /\ polls > 0
    /\ recCalls = 1
    /\ detected = "GT911"
    /\ lv_indevs = 1
    /\ pollLog # <<>>

\* ---------------------------------------------------------------------------
\* Raw FamilyB polling against a device that keeps its state.  The GT911 sets
\* bit 0x80 of the status register when a buffer is ready and leaves the
\* register alone until the host writes it; only then does it publish the
\* next buffer.  The poll is the raw path of touch_read_cb with the status
\* byte taken from the device; each transaction may fail.
\* ---------------------------------------------------------------------------
ReadyStatus == { b \in StatusBytes : Bit7(b) }
\* First-contact records the device may hold: an ordinary point, the sentinel,
\* and a point with one sentinel axis.
DevPoints == { <<10, 20>>, <<65535, 65535>>, <<65535, 20>> }
AckDelivered(log) == \E i \in DOMAIN log :
                        log[i].op = "write" /\ log[i].reg = GT_REG_STATUS /\ log[i].ok

dev_poll(stOk, ptOk, ackOk) ==
    /\ pc = "loop" /\ lv_indevs > 0
    /\ \E p \in DevPoints :
          LET d == gt_raw_read(s_addr, stOk, devStatus, ptOk, PointBytes(p), ackOk)
          IN  /\ pollLog' = d.log
              /\ data' = read_cb_result(d)
              /\ devStatus' = IF AckDelivered(d.log) THEN 0 ELSE devStatus
    /\ polls' = IF polls < MaxDevPolls THEN polls + 1 ELSE polls
    /\ UNCHANGED <<cfgVars, appVars, initCalls, recVars, recCalls, scanProbes, pc, wireClock, detVars, s_indev,
                   lv_indevs, scanOut, detLog, detected, loops>>

\* One call of touch_read_cb from lv_timer_handler.
DevPoll == \E stOk, ptOk, ackOk \in BOOLEAN : dev_poll(stOk, ptOk, ackOk)
\* A call in which every transaction succeeds.
DevPollOk == dev_poll(TRUE, TRUE, TRUE)

\* The controller publishes its next buffer once the register was cleared.
dev_sample ==
    /\ ~Bit7(devStatus)
    /\ devStatus' \in ReadyStatus
    /\ UNCHANGED <<cfgVars, appVars, initCalls, recVars, recCalls, scanProbes, pc, wireClock, detVars, s_indev,
                   lv_indevs, scanOut, detLog, detected, pollVars, loops>>

\* The driver after a start-up that detected FamilyB and left the raw register
\* path active (no GT911 library, or its begin() failed).  The orientation
\* flags play no part in the acknowledge; the inversions keep their defaults.
InitDevice ==
    /\ TOUCH_SWAP_XY \in BOOLEAN
    /\ TOUCH_INVERT_X = FALSE /\ TOUCH_INVERT_Y = FALSE    \* touch_input.h defaults
    /\ HAVE_GT911_LIB \in BOOLEAN
    /\ pc = "loop"
    /\ wireClock = CLOCK_FAST
    /\ s_ic = "GT911" /\ s_addr \in {GT_ADDR_5D, GT_ADDR_14} /\ s_gt_using_lib = FALSE
    /\ s_indev = 1 /\ lv_indevs = 1
    /\ scanOut = [addrs |-> <<>>, none |-> TRUE] /\ scanProbes = <<>>
    /\ detLog = <<>> /\ detected = "GT911"
    /\ pollLog = <<>> /\ data = Released /\ loops = 0 /\ polls = 0
    /\ recCalls = 1 /\ rec_pc = "idle" /\ rec_i = 0
    /\ recEntry = "-" /\ recLoopRead = "-" /\ recFinal = "-"
    /\ recPulses = 0 /\ recStop = FALSE /\ recReleased = FALSE
    /\ recResult = "-"
    /\ devStatus \in StatusBytes
    /\ AppInit
    /\ initCalls = 1

NextDevice ==
    \/ DevPoll
    \/ dev_sample

\* loop() keeps calling lv_timer_handler, which keeps calling the poll
\* function; the hypothesis that transactions eventually succeed is weak
\* fairness of the poll in which they all do.
SpecDevice == InitDevice /\ [][NextDevice]_vars /\ WF_vars(DevPollOk)

\* C18: in raw FamilyB mode against a device whose ready bit stays set until
\* the status register is written to zero, every ready state is eventually
\* cleared, whatever contact count or coordinates it carries, and it is the
\* driver's acknowledge write of that poll that clears it.
C18_ReadyEventuallyCleared ==
    /\ (devStatus \in ReadyStatus) ~> (devStatus = 0)
    /\ [][(Bit7(devStatus) /\ ~Bit7(devStatus')) =>
             (devStatus' = 0 /\ AckDelivered(pollLog'))]_vars

\* A ready state with contact count zero was observed by a poll and cleared
\* by its acknowledge write.
C18_Witness ==
    /\ ReadyObserved
    /\ StatusCount = 0
    /\ AckDelivered(pollLog)
    /\ data = Released
    /\ devStatus = 0

\* ---------------------------------------------------------------------------
\* Identity / address pairing
\* ---------------------------------------------------------------------------
CandidateAddrs == {FT_ADDR, GT_ADDR_5D, GT_ADDR_14}
DetProbes(a) == { i \in DOMAIN detLog : detLog[i].op = "probe" /\ detLog[i].addr = a }
DetectRecordKept == pc \in {"decoder", "register"}
\* Every combination of acknowledge / ID-read responses a pass can meet.
DetectInputs ==
    { <<a38, a5d, a14, chipOk, chip, vendOk, pidOk, cfgOk>> :
        a38 \in BOOLEAN, a5d \in BOOLEAN, a14 \in BOOLEAN, chipOk \in BOOLEAN,
        chip \in ChipBytes, vendOk \in BOOLEAN, pidOk \in BOOLEAN, cfgOk \in BOOLEAN }
DetectOf(t) == detect_ic_result(t[1], t[2], t[3], t[4], t[5], t[6], t[7], t[8])

\* C19: the identity FT6X36 is only ever held together with address 0x38 and
\* the identity GT911 with 0x5D or 0x14, which is also what touch_i2c_address()
\* reports; while the record of the detection pass is at hand, the resolved
\* address of an active identity is one whose probe acknowledged in that pass,
\* and the pass holds exactly one probe of each of 0x38, 0x5D, 0x14 and of no
\* other address; and two passes that observe the same responses on the bus
\* end with the same identity and address (detect_ic reads no variable, so
\* the comparison of all pairs of passes is evaluated in one state).
C19_IdentityAddressPaired ==
    /\ s_ic = "FT6X36" => (s_addr = 56 /\ touch_i2c_address = 56)
    /\ s_ic = "GT911"  => (s_addr \in {93, 20} /\ touch_i2c_address = s_addr)
    /\ DetectRecordKept =>
          /\ s_ic # "NONE" => Acked(s_addr)
          /\ \A a \in 0..127 :
                Cardinality(DetProbes(a)) = (IF a \in {56, 93, 20} THEN 1 ELSE 0)
    /\ JustDetected =>
          /\ s_ic = "NONE" => s_addr = 0
          /\ \E t \in DetectInputs :
                DetectOf(t).log = detLog /\ DetectOf(t).ic = s_ic /\ DetectOf(t).addr = s_addr
    /\ (pc = "begin" /\ cfgVars = <<FALSE, FALSE, FALSE, FALSE>>) =>
          \A t, u \in DetectInputs :
              DetectOf(t).log = DetectOf(u).log =>
                  (DetectOf(t).ic = DetectOf(u).ic /\ DetectOf(t).addr = DetectOf(u).addr)

\* Only 0x14 acknowledged: FamilyB was resolved to 0x14.
C19_Witness ==
    /\ pc = "decoder"
    /\ ~Acked(56) /\ ~Acked(93) /\ Acked(20)
    /\ s_ic = "GT911"
    /\ touch_i2c_address = 20

\* ---------------------------------------------------------------------------
\* Bus clock
\* ---------------------------------------------------------------------------
BringUp == pc \in {"recover", "scan", "detect", "decoder", "register"}
InitReturned == pc = "loop"

\* C20: the bus runs at 100 kHz during bring-up (recovery, scan, detection)
\* and at 400 kHz once touch_init_and_register_lvgl has returned, for every
\* detection outcome.
C20_ClockSchedule ==
    /\ BringUp => wireClock = CLOCK_SLOW
    /\ InitReturned => wireClock = CLOCK_FAST

\* touch_init_and_register_lvgl has returned without an active identity and
\* the bus is still at 100 kHz.
C20_SlowAfterInit ==
    /\ InitReturned
    /\ s_ic = "NONE"
    /\ wireClock = CLOCK_SLOW

\* ---------------------------------------------------------------------------
\* Calibration offsets
\* ---------------------------------------------------------------------------
\* The values the documentation gives for include/touch_input.h.  The header
\* and touch_input.cpp define and use no such macro.
TOUCH_X_OFFSET == 0
TOUCH_Y_OFFSET == 10

NoSwapNoInvert == ~TOUCH_SWAP_XY /\ ~TOUCH_INVERT_X /\ ~TOUCH_INVERT_Y
\* A delivered point that stays on the screen after the shift, so that no
\* clamp takes part.
ShiftStaysInScreen ==
    /\ InScreen(MapperInput)
    /\ InScreen(<<MapperInput[1] + TOUCH_X_OFFSET, MapperInput[2] + TOUCH_Y_OFFSET>>)

\* C21: every pressed result carries the two calibration offsets: the
\* reported x is the mapped x shifted by TOUCH_X_OFFSET and the reported y the
\* mapped y shifted by TOUCH_Y_OFFSET (a positive value moving the touch down
\* the screen), stated here for the orientation flags off and points that
\* the shift leaves on the screen.
C21_OffsetsApplied ==
    (polls > 0 /\ data.state = "PRESSED" /\ NoSwapNoInvert /\ ShiftStaysInScreen) =>
        /\ data.x = MapperInput[1] + TOUCH_X_OFFSET
        /\ data.y = MapperInput[2] + TOUCH_Y_OFFSET

\* The device delivered (10, 20) and the poll reported (10, 20): y was not
\* moved down by TOUCH_Y_OFFSET.
C21_ReportedUnshifted ==
    /\ polls > 0 /\ data.state = "PRESSED" /\ NoSwapNoInvert
    /\ PointSources # {}
    /\ MapperInput = <<10, 20>>
    /\ data.x = 10 /\ data.y = 20

\* ---------------------------------------------------------------------------
\* Monitor application: volume and threshold handlers
\* ---------------------------------------------------------------------------
touchVars == <<cfgVars, initCalls, devStatus, pc, wireClock, detVars, s_indev, lv_indevs, scanOut,
               scanProbes, detLog, detected, pollVars, loops, recVars, recCalls>>

VOLUME_CAP == 70        \* "firmware clamps 0-70%"
SLIDER_MIN == 0
SLIDER_MAX == 100
SerialChars == {"p", "x", "+", "-", "w", "s", "?"}

clamp100(v) == IF v < 0 THEN 0 ELSE IF v > 100 THEN 100 ELSE v

\* update_now_playing: the label texts and lv_slider_set_value(volumeSlider, g.volume).
update_now_playing(vol) == sliderValue' = vol

\* on_volume: LV_EVENT_VALUE_CHANGED of the slider, which the user has set to v.
on_volume ==
    /\ \E v \in SLIDER_MIN..SLIDER_MAX :
          /\ sliderValue' = v
          /\ g_volume' = clamp100(v)
    /\ UNCHANGED <<touchVars, millis, sessVars, simVars, g_cryThresh, g_playing>>

\* handleSerial, one received character.
handleSerial ==
    /\ \E c \in SerialChars :
          CASE c = "p" -> /\ g_playing' = (IF g_playing = "None" THEN "WhiteNoise" ELSE g_playing)
                          /\ update_now_playing(g_volume)
                          /\ UNCHANGED <<g_volume, g_cryThresh>>
            [] c = "x" -> /\ g_playing' = "None"
                          /\ update_now_playing(g_volume)
                          /\ UNCHANGED <<g_volume, g_cryThresh>>
            [] c = "+" -> /\ g_volume' = clamp100(g_volume + 5)
                          /\ update_now_playing(g_volume')
                          /\ UNCHANGED <<g_cryThresh, g_playing>>
            [] c = "-" -> /\ g_volume' = clamp100(g_volume - 5)
                          /\ update_now_playing(g_volume')
                          /\ UNCHANGED <<g_cryThresh, g_playing>>
            [] c = "w" -> /\ g_cryThresh' = clamp100(g_cryThresh + 2)
                          /\ UNCHANGED <<g_volume, g_playing, sliderValue>>
            [] c = "s" -> /\ g_cryThresh' = clamp100(g_cryThresh - 2)
                          /\ UNCHANGED <<g_volume, g_playing, sliderValue>>
            [] OTHER   -> UNCHANGED appVars
    /\ UNCHANGED <<touchVars, millis, sessVars, simVars>>

\* The monitor after build_ui, the touch driver not yet started.
InitVolume == Init /\ cfgVars = <<FALSE, FALSE, FALSE, FALSE>>

NextVolume ==
    \/ on_volume
    \/ handleSerial

SpecVolume == InitVolume /\ [][NextVolume]_vars

\* C22: after any sequence of volume-slider events and '+' / '-' serial
\* commands the stored volume lies between 0 and 70 percent.
C22_VolumeCapped ==
    0 <= g_volume /\ g_volume <= VOLUME_CAP

\* The stored volume is 75 and the slider shows it: 60, then '+' three times.
C22_VolumeAboveCap ==
    /\ g_volume = 75
    /\ sliderValue = 75

\* ---------------------------------------------------------------------------
\* Order of the detection pass
\* ---------------------------------------------------------------------------
GtAddrs == {GT_ADDR_5D, GT_ADDR_14}
ToFamilyB(e) == e.addr \in GtAddrs

\* C23 as stated: 0x38 is probed before any FamilyB address, and a detection
\* pass that confirms FamilyA issues no transaction to 0x5D or 0x14.
C23_FamilyBOnlyIfNotFamilyA ==
    JustDetected =>
        /\ detLog[1].op = "probe" /\ detLog[1].addr = 56
        /\ s_ic = "FT6X36" => \A i \in DOMAIN detLog : ~ToFamilyB(detLog[i])

\* C23 (amended): the pass starts with the three address probes, 0x38 first,
\* then 0x5D, then 0x14, before any register read; a pass that confirms
\* FamilyA sends nothing but that one probe each to 0x5D and 0x14; register
\* reads go to a FamilyB address only when FamilyA was found not confirmed,
\* and then after every transaction to 0x38.
C23_ProbesThenIdReads ==
    JustDetected =>
        /\ Len(detLog) >= 3
        /\ \A i \in 1..3 : detLog[i].op = "probe"
        /\ <<detLog[1].addr, detLog[2].addr, detLog[3].addr>> = <<56, 93, 20>>
        /\ \A i \in DOMAIN detLog : i > 3 => detLog[i].op = "read"
        /\ s_ic = "FT6X36" =>
              \A i \in DOMAIN detLog : ToFamilyB(detLog[i]) => detLog[i].op = "probe"
        /\ \A i \in DOMAIN detLog :
              (ToFamilyB(detLog[i]) /\ detLog[i].op = "read") =>
                  /\ ~FamilyAConfirmed
                  /\ s_ic = "GT911" /\ detLog[i].addr = s_addr
                  /\ \A j \in DOMAIN detLog : detLog[j].addr = 56 => j < i

\* FamilyA was confirmed in a pass that had also probed 0x5D and 0x14, and
\* 0x5D had acknowledged.
C23_Witness ==
    /\ JustDetected
    /\ s_ic = "FT6X36"
    /\ Acked(93)
    /\ Cardinality(DetProbes(20)) = 1
    /\ Len(detLog) = 5

\* ---------------------------------------------------------------------------
\* Order of the transactions of a raw poll
\* ---------------------------------------------------------------------------
GT_POINT_RECORD_LEN == 8      \* sizeof(GTPointRaw)
Reads == { i \in DOMAIN pollLog : pollLog[i].op = "read" }

\* C24: a raw FamilyB poll that observed the ready bit sends exactly three
\* transactions, in the order status read, read of the 8-byte first-contact
\* record at 0x8150, acknowledge write; the record read is attempted for every
\* contact count, zero included; no other record is read; and the acknowledge
\* comes after the record read, whether that read succeeded or not.
C24_StatusRecordAck ==
    (RawPolled /\ ReadyObserved) =>
        /\ Len(pollLog) = 3
        /\ IsStatusRead(pollLog[1])
        /\ IsPointRead(pollLog[2])
        /\ pollLog[2].reg = GT_REG_POINTS /\ pollLog[2].len = GT_POINT_RECORD_LEN
        /\ pollLog[2].ok => Len(pollLog[2].bytes) = GT_POINT_RECORD_LEN
        /\ IsAckWrite(pollLog[3])
        /\ Reads = {1, 2}
        /\ \A i \in AckWrites : \E j \in PointReads : j < i

\* Ready with contact count zero: the record was read all the same, with
\* success, and the acknowledge followed.
C24_Witness ==
    /\ RawPolled /\ ReadyObserved
    /\ StatusCount = 0
    /\ Len(pollLog) = 3
    /\ IsPointRead(pollLog[2]) /\ pollLog[2].ok
    /\ IsAckWrite(pollLog[3])

\* ---------------------------------------------------------------------------
\* Identity None and the null address
\* ---------------------------------------------------------------------------
\* C25: whenever touch_present() is false after initialisation,
\* touch_i2c_address() is 0x00, also when FamilyA was confirmed by detection
\* and its library begin() then failed.
C25_NonePairedWithNull ==
    (InitReturned /\ ~touch_present) => touch_i2c_address = 0

\* Initialisation has returned after a failed FamilyA begin(): no touch is
\* present, yet the reported address is 0x38.
C25_NoneAtFamilyAAddress ==
    /\ InitReturned
    /\ detected = "FT6X36"
    /\ ~touch_present
    /\ touch_ic_name = "NONE"
    /\ touch_i2c_address = FT_ADDR

\* ---------------------------------------------------------------------------
\* Detection re-run: touch_init_and_register_lvgl called again
\* ---------------------------------------------------------------------------
\* A further call of the public function, made once the previous one has
\* returned.  The function keeps no record of having run: it starts again at
\* Wire.begin with s_ic, s_addr, s_indev and the LVGL registrations as the
\* previous call left them.  The re-run is explored where start-up code makes
\* it, before the first loop() iteration; polling follows the last call.
touch_reinit ==
    /\ pc = "loop"
    /\ loops = 0
    /\ initCalls < MaxInitCalls
    /\ initCalls' = initCalls + 1
    /\ pc' = "begin"
    /\ UNCHANGED <<cfgVars, appVars, recVars, devStatus, recCalls, scanProbes, wireClock,
                   detVars, s_indev, lv_indevs, scanOut, detLog, detected, pollVars, loops>>

InitReinit == Init /\ NoSwapNoInvert

NextReinit ==
    \/ wire_begin
    \/ i2c_bus_recover
    \/ i2c_full_scan_print
    \/ detect_ic
    \/ init_decoder
    \/ register_indev
    \/ loop
    \/ touch_reinit

SpecReinit == InitReinit /\ [][NextReinit]_vars

\* C26: after any number of calls of touch_init_and_register_lvgl at most one
\* pointer device carrying the touch read callback is registered, and one is
\* registered only while the identity is not None.
C26_SingleIndev ==
    InitReturned =>
        /\ lv_indevs <= 1
        /\ lv_indevs = 1 => s_ic # "NONE"

\* Two calls that each detected a controller have left two registered
\* pointer devices.
C26_TwoIndevs ==
    /\ InitReturned
    /\ initCalls = 2
    /\ lv_indevs = 2
    /\ s_indev = 2

\* ---------------------------------------------------------------------------
\* Raw coordinates beyond the signed 16-bit range
\* ---------------------------------------------------------------------------
MinOf(a, b) == IF a <= b THEN a ELSE b

\* C27: with swap and inversion disabled, every valid FamilyB contact (raw
\* coordinates 0..0xFFFE) is reported at min(raw x, W - 1), min(raw y, H - 1):
\* a coordinate beyond the screen is clamped to the far edge and never wraps
\* to 0 through the signed 16-bit conversion.
C27_FarEdgeClamp ==
    (RawPolled /\ data.state = "PRESSED" /\ NoSwapNoInvert) =>
        /\ data.x = MinOf(RecX, TOUCH_SCREEN_W - 1)
        /\ data.y = MinOf(RecY, TOUCH_SCREEN_H - 1)

\* The device sent x = 0x8000, y = 40000 in a valid contact and the poll
\* reported the point (0, 0).
C27_WrappedToZero ==
    /\ RawPolled /\ data.state = "PRESSED" /\ NoSwapNoInvert
    /\ RecX = 32768 /\ RecY = 40000
    /\ data.x = 0 /\ data.y = 0

\* ---------------------------------------------------------------------------
\* Binaural application: session state machine (src/src/main.cpp)
\* ---------------------------------------------------------------------------
\* millis() never decreases and the clock range explored stays far below 2^31,
\* so the uint32_t sums and differences below never wrap.
SESSION_MIN_MINUTES == 1
SESSION_MAX_MINUTES == 60
SESSION_TIME_STEP == 30000      \* granularity at which the clock is advanced

Session(st, acc, start) == [state |-> st, acc |-> acc, start |-> start]
CurSession == Session(state, accumulatedMs, sessionStartMs)

sessionTotalMs(minutes) == minutes * 60 * 1000
sessionElapsedMs(s, now) ==
    IF s.state = "RUNNING" THEN s.acc + (now - s.start) ELSE s.acc

startSession_always_clears(s, now) ==
    IF s.state # "RUNNING" THEN Session("RUNNING", 0, now) ELSE s

startSession(s, now) ==
    IF s.state # "RUNNING"
    THEN Session("RUNNING", IF s.state = "DONE" THEN 0 ELSE s.acc, now)
    ELSE s

pauseSessionToggle(s, now) ==
    IF s.state = "RUNNING" THEN Session("PAUSED", s.acc + (now - s.start), s.start)
    ELSE IF s.state = "PAUSED" THEN Session("RUNNING", s.acc, now)
    ELSE s

stopSession(s) == Session("IDLE", 0, s.start)

\* ui_update_progress: the RUNNING -> DONE test, then the bar and the label.
ui_update_progress(s, minutes, now) ==
    LET total   == sessionTotalMs(minutes)
        elapsed == sessionElapsedMs(s, now)
        st      == IF s.state = "RUNNING" /\ elapsed >= total /\ total > 0
                   THEN "DONE" ELSE s.state
    IN  [sname |-> st, total |-> total, elapsed |-> elapsed,
         bar |-> IF elapsed <= total THEN elapsed ELSE total,
         remain |-> IF elapsed >= total THEN 0 ELSE total - elapsed]

\* A handler: the session function's result r, the new minutes, and the
\* ui_update_progress every handler ends with (directly or via ui_sync_all).
session_handler(op, r, minutes) ==
    LET u == ui_update_progress(r, minutes, millis)
    IN  /\ state' = u.sname
        /\ accumulatedMs' = r.acc
        /\ sessionStartMs' = r.start
        /\ sessionMinutes' = minutes
        /\ lastOp' = op
        /\ opBefore' = [state |-> state, acc |-> accumulatedMs]
        /\ opMid' = [state |-> r.state, acc |-> r.acc]
        /\ shown' = u
        /\ doneMinutes' = IF u.sname # "DONE" THEN 0
                          ELSE IF state = "DONE" THEN doneMinutes ELSE minutes
        /\ UNCHANGED <<touchVars, millis, simVars, g_volume, g_cryThresh, g_playing,
                       sliderValue>>

\* Start button / key 'g'.
start_btn_event_cb == session_handler("start", startSession(CurSession, millis), sessionMinutes)
\* Pause button / key 'p'.
pause_btn_event_cb == session_handler("pause", pauseSessionToggle(CurSession, millis), sessionMinutes)
\* Stop button / key 'x'.
stop_btn_event_cb == session_handler("stop", stopSession(CurSession), sessionMinutes)
\* Minutes + / key '+'.
minutes_plus_event_cb ==
    /\ sessionMinutes < MaxMinutes
    /\ session_handler("plus", CurSession,
                       IF sessionMinutes < SESSION_MAX_MINUTES THEN sessionMinutes + 1
                       ELSE sessionMinutes)
\* Minutes - / key '-'.
minutes_minus_event_cb ==
    session_handler("minus", CurSession,
                    IF sessionMinutes > SESSION_MIN_MINUTES THEN sessionMinutes - 1
                    ELSE sessionMinutes)
\* The 250 ms LVGL timer.
session_timer_cb == session_handler("tick", CurSession, sessionMinutes)

session_time_passes ==
    /\ millis + SESSION_TIME_STEP <= MaxSessionMs
    /\ millis' = millis + SESSION_TIME_STEP
    /\ UNCHANGED <<touchVars, sessVars, simVars, g_volume, g_cryThresh, g_playing,
                   sliderValue>>

InitSession == Init /\ cfgVars = <<FALSE, FALSE, FALSE, FALSE>>

NextSession ==
    \/ start_btn_event_cb
    \/ pause_btn_event_cb
    \/ stop_btn_event_cb
    \/ minutes_plus_event_cb
    \/ minutes_minus_event_cb
    \/ session_timer_cb
    \/ session_time_passes

SpecSession == InitSession /\ [][NextSession]_vars

\* ---------------------------------------------------------------------------
\* Session properties
\* ---------------------------------------------------------------------------
SessionStates == {"IDLE", "RUNNING", "PAUSED", "DONE"}
Phase(st, acc) == [state |-> st, acc |-> acc]

\* C28: the session state machine moves only as follows.  start takes IDLE,
\* PAUSED or DONE to RUNNING, does nothing when already RUNNING, and clears the
\* accumulated time only when it leaves DONE; pause/resume toggles RUNNING and
\* PAUSED and does nothing in IDLE or DONE; stop takes every state to IDLE with
\* accumulated time 0; the minutes buttons and the timer leave the session
\* alone; and DONE is entered only from RUNNING, by the progress update that
\* ends the handler and finds elapsed >= total.
C28_SessionTransitions ==
    /\ state \in SessionStates
    /\ lastOp = "start" =>
          /\ opMid.state = "RUNNING"
          /\ opMid.acc = IF opBefore.state = "DONE" THEN 0 ELSE opBefore.acc
    /\ lastOp = "pause" =>
          /\ opBefore.state = "RUNNING" => opMid.state = "PAUSED"
          /\ opBefore.state = "PAUSED" => opMid = Phase("RUNNING", opBefore.acc)
          /\ opBefore.state \in {"IDLE", "DONE"} => opMid = opBefore
    /\ lastOp = "stop" => opMid = Phase("IDLE", 0)
    /\ lastOp \in {"plus", "minus", "tick"} => opMid = opBefore
    /\ state # opMid.state =>
          /\ state = "DONE"
          /\ opMid.state = "RUNNING"
          /\ shown.elapsed >= shown.total
    /\ accumulatedMs = opMid.acc

\* A session that was paused and resumed has run to its end.
C28_Witness ==
    /\ state = "DONE"
    /\ opMid.state = "RUNNING"
    /\ accumulatedMs > 0
    /\ shown.elapsed >= shown.total

\* C29: once the session is DONE, a later progress update (here the timer's,
\* with the session length unchanged since DONE was entered) still reports it
\* complete: elapsed >= total, time left 0, progress value equal to the total.
C29_DoneStaysComplete ==
    (lastOp = "tick" /\ opBefore.state = "DONE" /\ sessionMinutes = doneMinutes) =>
        /\ shown.sname = "DONE"
        /\ shown.elapsed >= shown.total
        /\ shown.remain = 0
        /\ shown.bar = shown.total

\* A progress update in DONE shows an empty bar and the full time left.
C29_DoneShowsFullTimeLeft ==
    /\ state = "DONE"
    /\ lastOp = "tick"
    /\ opBefore.state = "DONE"
    /\ sessionMinutes = doneMinutes
    /\ shown.sname = "DONE"
    /\ shown.bar = 0
    /\ shown.remain = shown.total

\* ---------------------------------------------------------------------------
\* Baby monitor: simulated sound level and cry flag (src/unnamed/part_002)
\* ---------------------------------------------------------------------------
SIM_TICK_PERIOD == 120     \* lv_timer_create(tick_sim_timer, 120, nullptr)
CRY_DEBOUNCE_MS == 600

\* base + noise before clamp100: 50 + 35 sin(..) in 15..85, noise in -5..5.
\* The values kept are the extremes and the ones around the threshold.
SimLevels == {10, 64, 65, 66, 90}

cry_update_at_600(level, now) ==
    IF level > g_cryThresh
    THEN IF ~g_cryLikely
         THEN LET since0 == IF cry_high_since = 0 THEN now ELSE cry_high_since
              IN  [likely |-> (now - since0 >= CRY_DEBOUNCE_MS), since |-> since0]
         ELSE [likely |-> g_cryLikely, since |-> cry_high_since]
    ELSE [likely |-> FALSE, since |-> 0]

\* The if/else of tick_sim_timer: the new cryLikely and cry_high_since.
cry_update(level, now) ==
    IF level > g_cryThresh
    THEN IF ~g_cryLikely
         THEN LET since0 == IF cry_high_since = 0 THEN now ELSE cry_high_since
              IN  [likely |-> (now - since0 > CRY_DEBOUNCE_MS), since |-> since0]
         ELSE [likely |-> g_cryLikely, since |-> cry_high_since]
    ELSE [likely |-> FALSE, since |-> 0]

tick_sim_timer ==
    \E raw \in SimLevels :
        LET level == clamp100(raw)
            r     == cry_update(level, millis)
        IN  /\ g_soundLevel' = level
            /\ g_cryLikely' = r.likely
            /\ cry_high_since' = r.since
            /\ highRunStart' = IF level > g_cryThresh
                               THEN (IF highRunStart < 0 THEN millis ELSE highRunStart)
                               ELSE -1
            /\ lastTickMs' = millis
            /\ UNCHANGED <<touchVars, millis, sessVars, g_volume, g_cryThresh, g_playing,
                           sliderValue>>

sim_time_passes ==
    /\ millis + SIM_TICK_PERIOD <= MaxSimMs
    /\ millis' = millis + SIM_TICK_PERIOD
    /\ UNCHANGED <<touchVars, sessVars, simVars, g_volume, g_cryThresh, g_playing,
                   sliderValue>>

InitSim == Init /\ cfgVars = <<FALSE, FALSE, FALSE, FALSE>>

NextSim ==
    \/ tick_sim_timer
    \/ sim_time_passes

SpecSim == InitSim /\ [][NextSim]_vars

\* C30: the cry flag is debounced.  cryLikely is true only when every tick of
\* a span longer than 600 ms, ending at the latest tick, found the level above
\* the threshold; after a tick with the level at or below the threshold it is
\* false.
C30_CryDebounced ==
    /\ g_cryLikely =>
          /\ g_soundLevel > g_cryThresh
          /\ highRunStart >= 0
          /\ lastTickMs - highRunStart > CRY_DEBOUNCE_MS
    /\ (lastTickMs >= 0 /\ g_soundLevel <= g_cryThresh) =>
          /\ ~g_cryLikely
          /\ highRunStart < 0

\* The flag is up after an unbroken loud run that followed a quiet tick.
C30_Witness ==
    /\ g_cryLikely
    /\ highRunStart > 0
    /\ lastTickMs - highRunStart > CRY_DEBOUNCE_MS

====
